---- MODULE Spec2Model ----
(***************************************************************************)
(* Replicated Sequence data object of sn_data_types: three append-only     *)
(* histories (entries, permission snapshots, owner snapshots) merged       *)
(* across replicas, and the permission evaluation over the latest          *)
(* snapshots.                                                              *)
(***************************************************************************)
EXTENDS Integers, Sequences, FiniteSets, TLC

(***************************************************************************)
(* Bounds of the model.                                                    *)
(***************************************************************************)
\* total number of operations emitted by local appends, all histories together
MaxOps == 2

Replicas == {1, 2}
\* public keys (requesters, owners, actors)
Keys == {1, 2}
\* User::Anyone; User::Specific(k) is the key k itself
Anyone == 0
Users == Keys \cup {Anyone}
\* entry payloads (b"value0", b"value1" in the tests)
Entries == {"value0", "value1"}
\* indices a caller declares to the index-checked setters
Indices == {0, 1, 2}

(***************************************************************************)
(* Request taxonomy (permissions.rs): a request is a Cmd or a Query.       *)
(***************************************************************************)
Request == {<<"Cmd", "Append">>, <<"Cmd", "ModifyPermissions">>, <<"Query", "ReadData">>}

\* Option<T>: None is the empty sequence, Some(x) the sequence <<x>>
None == << >>
Some(x) == <<x>>

\* BTreeMap<Request, bool>: a function on a subset of Request
PermissionSets == UNION {[D -> BOOLEAN] : D \in SUBSET Request}

\* BTreeMap::get
MapGet(m, k) == IF k \in DOMAIN m THEN Some(m[k]) ELSE None

(***************************************************************************)
(* Permission evaluation (permissions.rs).                                 *)
(***************************************************************************)
\* evaluation that permits every request the set does not explicitly deny
PrivatePermissionSet_is_permitted_unless_denied(set, request) ==
    MapGet(set, request) # Some(FALSE)

PrivatePermissionSet_is_permitted(set, request) ==
    MapGet(set, request) = Some(TRUE)

PublicPermissionSet_is_permitted(set, request) ==
    IF request[1] = "Query" THEN Some(TRUE)
    ELSE MapGet(set, request)

PrivatePermissions_is_permitted(snap, user, request) ==
    IF user \in DOMAIN snap.permissions
    THEN PrivatePermissionSet_is_permitted(snap.permissions[user], request)
    ELSE FALSE

PublicPermissions_is_permitted_(snap, user, request) ==
    IF user \in DOMAIN snap.permissions
    THEN PublicPermissionSet_is_permitted(snap.permissions[user], request)
    ELSE None

\* evaluation in which a grant of the Anyone entry overrides the requester's own entry
PublicPermissions_is_permitted_anyone_first(snap, user, request) ==
    IF PublicPermissions_is_permitted_(snap, Anyone, request) = Some(TRUE) THEN TRUE
    ELSE PublicPermissions_is_permitted_(snap, user, request) = Some(TRUE)

\* evaluation in which a requester with an entry never falls back to the Anyone entry
PublicPermissions_is_permitted_entry_final(snap, user, request) ==
    IF user \in DOMAIN snap.permissions
    THEN PublicPermissions_is_permitted_(snap, user, request) = Some(TRUE)
    ELSE PublicPermissions_is_permitted_(snap, Anyone, request) = Some(TRUE)

PublicPermissions_is_permitted(snap, user, request) ==
    LET own == PublicPermissions_is_permitted_(snap, user, request) IN
    IF own = Some(TRUE) THEN TRUE
    ELSE IF own = Some(FALSE) THEN FALSE
    ELSE PublicPermissions_is_permitted_(snap, Anyone, request) = Some(TRUE)

(***************************************************************************)
(* Versioned history: a sequence of elements [pos, actor, counter, val]    *)
(* kept sorted by (pos, actor, counter).  (actor, counter) is the dot of   *)
(* the operation that produced the element.                                *)
(***************************************************************************)
SetMax(S) == CHOOSE x \in S : \A y \in S : y <= x

\* deterministic comparison keyed on (logical position, actor identity)
Less(a, b) ==
    \/ a.pos < b.pos
    \/ a.pos = b.pos /\ a.actor < b.actor
    \/ a.pos = b.pos /\ a.actor = b.actor /\ a.counter < b.counter

\* the dot (actor, counter) was already merged into history h
Seen(h, e) == \E i \in 1..Len(h) : h[i].actor = e.actor /\ h[i].counter = e.counter

\* Merge that places the element at the end, in arrival order
Merge_arrival_order(h, e) ==
    IF Seen(h, e) THEN h ELSE Append(h, e)

\* Merge that does not recognise a dot it has merged before
Merge_no_dedup(h, e) ==
    LET k == Cardinality({i \in 1..Len(h) : Less(h[i], e)}) IN
    SubSeq(h, 1, k) \o <<e>> \o SubSeq(h, k + 1, Len(h))

\* Merge that drops every dot not above the highest counter merged for its actor
Merge_clock(h, e) ==
    IF \E i \in 1..Len(h) : h[i].actor = e.actor /\ h[i].counter >= e.counter THEN h
    ELSE LET k == Cardinality({i \in 1..Len(h) : Less(h[i], e)}) IN
         SubSeq(h, 1, k) \o <<e>> \o SubSeq(h, k + 1, Len(h))

\* Merge that places an element after those already merged at its position
Merge_tie_by_arrival(h, e) ==
    IF Seen(h, e) THEN h
    ELSE LET k == Cardinality({i \in 1..Len(h) : h[i].pos <= e.pos}) IN
         SubSeq(h, 1, k) \o <<e>> \o SubSeq(h, k + 1, Len(h))

\* LSeq::apply: merge one element; re-delivery of a seen dot is a no-op
Merge(h, e) ==
    IF Seen(h, e) THEN h
    ELSE LET k == Cardinality({i \in 1..Len(h) : Less(h[i], e)}) IN
         SubSeq(h, 1, k) \o <<e>> \o SubSeq(h, k + 1, Len(h))

\* LSeq::append: the element a local append of val by actor creates
NewElement(h, a, val) ==
    [pos     |-> IF h = << >> THEN 1 ELSE h[Len(h)].pos + 1,
     actor   |-> a,
     counter |-> 1 + SetMax({0} \cup {h[i].counter : i \in {j \in 1..Len(h) : h[j].actor = a}}),
     val     |-> val]


(***************************************************************************)
(* Message envelopes (messaging/mod.rs).                                   *)
(***************************************************************************)
\* longest chain of proxies an envelope collects
MaxProxies == 2

\* XorName::from(PublicKey), the `.into()` of cmd_dst
XorNameOf(public_key) == <<"XorName", public_key>>

\* Address::Client, Address::Node, Address::Section
Address_Client(xorname) == [variant |-> "Client", xorname |-> xorname]
Address_Node(xorname) == [variant |-> "Node", xorname |-> xorname]
Address_Section(xorname) == [variant |-> "Section", xorname |-> xorname]

\* utils::serialise: distinct values have distinct bytes
serialise(value) == [bytes |-> value]

\* a signature of the holder of public_key over bytes, and PublicKey::verify
Sign(public_key, bytes) == [signer |-> public_key, signed |-> bytes]
PublicKey_verify(public_key, signature, bytes) ==
    signature.signer = public_key /\ signature.signed = bytes

\* a signature that is not one of public_key over the bytes it is presented with
Forged(public_key) == Sign(public_key, serialise([forged |-> TRUE]))

\* Proof / BlsProof: the signer's key and its signature
Proof(id, signature) == [id |-> id, signature |-> signature]

\* MsgSender::Client, MsgSender::Node, MsgSender::Section
MsgSender_Client(proof) == [variant |-> "Client", proof |-> proof]
MsgSender_Node(duty, proof) == [variant |-> "Node", duty |-> duty, proof |-> proof]
MsgSender_Section(duty, proof) == [variant |-> "Section", duty |-> duty, proof |-> proof]

\* MsgSender::id, MsgSender::signature
MsgSender_id(sender) == sender.proof.id
MsgSender_signature(sender) == sender.proof.signature

\* Duty::Elder(ElderDuties::_)
Gateway == <<"Elder", "Gateway">>
Payment == <<"Elder", "Payment">>
Metadata == <<"Elder", "Metadata">>

\* the public keys of the parties: the client at the origin, the payer of a data
\* command, and the nodes and sections on the path
ClientKey == 1
PayerKey == 2
SenderKeys == (Gateway :> 3) @@ (Payment :> 4) @@ (Metadata :> 5)
SectionKeys == (Payment :> 7) @@ (Metadata :> 8)

\* names that are not the name of any key above
DataName == <<"XorName", 0>>
OtherName == <<"XorName", 9>>

\* Message: one message of each variant, and one of each variant of Cmd
Messages ==
    { [type |-> "Cmd", id |-> 1,
       cmd |-> [variant |-> "Data", cmd |-> [dst_address |-> DataName],
                payment |-> [from |-> PayerKey]]],
      [type |-> "Cmd", id |-> 2, cmd |-> [variant |-> "Transfer", dst_address |-> OtherName]],
      [type |-> "Cmd", id |-> 3, cmd |-> [variant |-> "Auth"]],
      [type |-> "Query", id |-> 4, query |-> [dst_address |-> DataName]],
      [type |-> "Event", id |-> 5, event |-> [dst_address |-> XorNameOf(ClientKey)]],
      [type |-> "QueryResponse", id |-> 6,
       query_origin |-> Address_Client(XorNameOf(ClientKey))],
      [type |-> "CmdError", id |-> 7, cmd_origin |-> Address_Client(XorNameOf(ClientKey))],
      [type |-> "NodeCmd", id |-> 8, cmd |-> [dst_address |-> Address_Node(OtherName)]],
      [type |-> "NodeEvent", id |-> 9, event |-> [dst_address |-> Address_Section(OtherName)]],
      [type |-> "NodeQuery", id |-> 10, query |-> [dst_address |-> Address_Node(OtherName)]],
      [type |-> "NodeCmdError", id |-> 11, cmd_origin |-> Address_Node(OtherName)],
      [type |-> "NodeQueryResponse", id |-> 12, query_origin |-> Address_Node(OtherName)] }

\* Message::id
Message_id(message) == message.id

\* MsgEnvelope
MsgEnvelope(message, origin, proxies) ==
    [message |-> message, origin |-> origin, proxies |-> proxies]

\* MsgEnvelope::id
MsgEnvelope_id(self) == Message_id(self.message)

\* with_proxy that puts the proxy at the head of the chain
with_proxy_at_head(self, proxy) ==
    [self EXCEPT !.proxies = <<proxy>> \o @]

\* MsgEnvelope::with_proxy
with_proxy(self, proxy) ==
    [self EXCEPT !.proxies = Append(@, proxy)]

\* MsgEnvelope::most_recent_sender
most_recent_sender(self) ==
    IF self.proxies = << >> THEN self.origin
    ELSE self.proxies[Len(self.proxies)]

\* verify that checks the signature against the envelope as it is
verify_without_pop(self) ==
    LET bytes == IF self.proxies = << >>
                 THEN serialise(self.message)
                 ELSE serialise(self)
        signer == most_recent_sender(self) IN
    PublicKey_verify(MsgSender_id(signer), MsgSender_signature(signer), bytes)

\* MsgEnvelope::verify
verify(self) ==
    LET bytes == IF self.proxies = << >>
                 THEN serialise(self.message)
                 ELSE serialise([self EXCEPT !.proxies = SubSeq(@, 1, Len(@) - 1)])
        signer == most_recent_sender(self) IN
    PublicKey_verify(MsgSender_id(signer), MsgSender_signature(signer), bytes)

\* cmd_dst that routes a data command by the origin of the envelope
cmd_dst_by_origin(self, cmd) ==
    IF cmd.variant = "Auth" THEN Address_Section(XorNameOf(MsgSender_id(self.origin)))
    ELSE IF cmd.variant = "Transfer" THEN Address_Section(cmd.dst_address)
    ELSE LET sender == self.origin IN
         IF sender.variant = "Client"
         THEN Address_Section(XorNameOf(MsgSender_id(self.origin)))
         ELSE IF sender.variant = "Node" /\ sender.duty = Gateway
         THEN Address_Section(XorNameOf(cmd.payment.from))
         ELSE IF sender.variant = "Node" /\ sender.duty = Payment
         THEN Address_Section(cmd.cmd.dst_address)
         ELSE IF sender.variant = "Section" /\ sender.duty = Payment
         THEN Address_Section(cmd.cmd.dst_address)
         ELSE Address_Section(XorNameOf(MsgSender_id(self.origin)))

\* MsgEnvelope::cmd_dst
cmd_dst(self, cmd) ==
    IF cmd.variant = "Auth" THEN Address_Section(XorNameOf(MsgSender_id(self.origin)))
    ELSE IF cmd.variant = "Transfer" THEN Address_Section(cmd.dst_address)
    ELSE LET sender == most_recent_sender(self) IN
         IF sender.variant = "Client"
         THEN Address_Section(XorNameOf(MsgSender_id(self.origin)))
         ELSE IF sender.variant = "Node" /\ sender.duty = Gateway
         THEN Address_Section(XorNameOf(cmd.payment.from))
         ELSE IF sender.variant = "Node" /\ sender.duty = Payment
         THEN Address_Section(cmd.cmd.dst_address)
         ELSE IF sender.variant = "Section" /\ sender.duty = Payment
         THEN Address_Section(cmd.cmd.dst_address)
         ELSE Address_Section(XorNameOf(MsgSender_id(self.origin)))

\* MsgEnvelope::destination
destination(self) ==
    LET message == self.message IN
    IF message.type = "Cmd" THEN cmd_dst(self, message.cmd)
    ELSE IF message.type = "Query" THEN Address_Section(message.query.dst_address)
    ELSE IF message.type = "Event" THEN Address_Client(message.event.dst_address)
    ELSE IF message.type = "QueryResponse" THEN message.query_origin
    ELSE IF message.type = "CmdError" THEN message.cmd_origin
    ELSE IF message.type = "NodeCmd" THEN message.cmd.dst_address
    ELSE IF message.type = "NodeEvent" THEN message.event.dst_address
    ELSE IF message.type = "NodeQuery" THEN message.query.dst_address
    ELSE IF message.type = "NodeCmdError" THEN message.cmd_origin
    ELSE message.query_origin

\* the envelope a client sends: the message and the client's signature over it
ClientEnvelope(message) ==
    MsgEnvelope(message,
                MsgSender_Client(Proof(ClientKey, Sign(ClientKey, serialise(message)))),
                << >>)

(***************************************************************************)
(* Node identity (identity/node.rs).                                       *)
(***************************************************************************)
\* what the random generator hands Ed25519Keypair::generate
Seeds == {1, 2}

\* Ed25519Keypair::generate
Ed25519Keypair_generate(seed) == [secret |-> seed, public |-> <<"Ed25519Public", seed>>]

\* PublicKey::Ed25519, PublicKey::BlsShare
PublicKey_Ed25519(key) == [variant |-> "Ed25519", key |-> key]
PublicKey_BlsShare(key) == [variant |-> "BlsShare", key |-> key]

\* BlsSecretKeyShare::public_key_share
public_key_share(secret_share) == <<"BlsPublicShare", secret_share>>

\* NodeKeypairs::new, FullId::new
NodeKeypairs_new(seed) ==
    LET ed25519 == Ed25519Keypair_generate(seed) IN
    [ed25519 |-> ed25519,
     bls |-> None,
     public_id |-> [name |-> XorNameOf(PublicKey_Ed25519(ed25519.public)),
                    ed25519 |-> ed25519.public,
                    bls |-> None]]

FullId_new(seed) ==
    LET ed25519 == Ed25519Keypair_generate(seed) IN
    [ed25519 |-> ed25519,
     bls |-> None,
     public_id |-> [name |-> XorNameOf(PublicKey_Ed25519(ed25519.public)),
                    ed25519 |-> ed25519.public,
                    bls |-> None]]

(***************************************************************************)
(* State.                                                                  *)
(***************************************************************************)
VARIABLES
    envelope,    \* MsgEnvelope: the envelope at the party that handles it now
    keypairs,    \* NodeKeypairs of the node
    full_id,     \* FullId of the node
    kind,        \* variant of Data, "Public" or "Private"
    address,     \* [kind, name, tag]: the Address the object was constructed with
    actor,       \* actor[r]: the actor replica r was constructed with
    data,        \* data[r]: entry history
    perms,       \* perms[r]: permission snapshot history
    owners,      \* owners[r]: owner snapshot history
    ops,         \* operations emitted so far (WriteOp.crdt_op), in flight to any replica
    applied,     \* applied[r]: operations handed to replica r's merge, its own included
    redelivered, \* some operation was handed to a replica that had merged it before
    res          \* [call, args, out]: the last call and the result it returned

vars == <<envelope, keypairs, full_id, kind, address, actor, data, perms, owners, ops, applied, redelivered, res>>

\* permission maps a caller passes in, per variant
PubPermissionChoices ==
    { (Anyone :> (<<"Cmd", "Append">> :> TRUE))
        @@ (1 :> ((<<"Cmd", "Append">> :> FALSE) @@ (<<"Query", "ReadData">> :> FALSE))),
      (Anyone :> (<<"Cmd", "Append">> :> TRUE)) @@ (1 :> (<<"Cmd", "ModifyPermissions">> :> TRUE)) }

PrivPermissionChoices ==
    { (1 :> ((<<"Cmd", "Append">> :> TRUE) @@ (<<"Cmd", "ModifyPermissions">> :> FALSE)
             @@ (<<"Query", "ReadData">> :> TRUE))),
      (2 :> (<<"Query", "ReadData">> :> FALSE)) }

\* XorName and tag a caller constructs an object with
Names == {"name0", "name1"}
Tags == {43000, 10000}

\* Data::new_pub
new_pub(n, t) ==
    [variant |-> "Public", address |-> [kind |-> "Public", name |-> n, tag |-> t]]

\* constructor that binds a private object to a public address
new_private_public_address(n, t) ==
    [variant |-> "Private", address |-> [kind |-> "Public", name |-> n, tag |-> t]]

\* Data::new_private
new_private(n, t) ==
    [variant |-> "Private", address |-> [kind |-> "Private", name |-> n, tag |-> t]]

\* Data::name, Data::tag, Data::is_pub, Data::is_private
name == address.name
tag == address.tag
is_pub == address.kind = "Public"
is_private == address.kind = "Private"

\* no envelope has been passed on and the node holds the keys it was created with
OtherSubsystemsIdle ==
    /\ envelope = ClientEnvelope(CHOOSE message \in Messages : message.id = 1)
    /\ keypairs = NodeKeypairs_new(1)
    /\ full_id = FullId_new(1)

\* Data::new_pub / Data::new_private on every replica
Init ==
    /\ \E d \in {new_pub("name0", 43000), new_private("name0", 43000)} :
          kind = d.variant /\ address = d.address
    /\ actor \in {f \in [Replicas -> Keys] : f[1] = 1}
    /\ data = [r \in Replicas |-> << >>]
    /\ perms = [r \in Replicas |-> << >>]
    /\ owners = [r \in Replicas |-> << >>]
    /\ ops = {}
    /\ applied = [r \in Replicas |-> {}]
    /\ redelivered = FALSE
    /\ OtherSubsystemsIdle
    /\ res = [call |-> "new", args |-> << >>, out |-> "Ok"]

(***************************************************************************)
(* Read accessors of the history wrapper (sequence/seq_crdt.rs).           *)
(***************************************************************************)
entries_index(r) == Len(data[r])
permissions_index(r) == Len(perms[r])
owners_index(r) == Len(owners[r])

\* conversion under which FromEnd(0) is the last position
to_absolute_index_from_end_zero_last(index, count) ==
    IF index[1] = "FromStart"
    THEN IF index[2] <= count THEN Some(index[2]) ELSE None
    ELSE IF index[2] < count THEN Some(count - 1 - index[2]) ELSE None

\* Index is <<"FromStart", i>> or <<"FromEnd", i>>
to_absolute_index(index, count) ==
    IF index[1] = "FromStart"
    THEN IF index[2] <= count THEN Some(index[2]) ELSE None
    ELSE IF index[2] <= count THEN Some(count - index[2]) ELSE None

\* LSeq::get with a zero-based position
HistoryGet(h, index) ==
    LET i == to_absolute_index(index, Len(h)) IN
    IF i # None /\ i[1] < Len(h) THEN Some(h[i[1] + 1].val) ELSE None

permissions(r, index) == HistoryGet(perms[r], index)
owner(r, index) == HistoryGet(owners[r], index)
get(r, index) == HistoryGet(data[r], index)

check_is_last_owner(r, requester) ==
    LET o == owner(r, <<"FromEnd", 1>>) IN
    IF o = None THEN "InvalidOwners"
    ELSE IF o[1].public_key = requester THEN "Ok"
    ELSE "AccessDenied"

\* Perm::is_action_allowed of the snapshot variant
is_action_allowed(snap, requester, action) ==
    IF snap.variant = "Public"
    THEN IF PublicPermissions_is_permitted(snap, requester, action) THEN "Ok" ELSE "AccessDenied"
    ELSE IF PrivatePermissions_is_permitted(snap, requester, action) THEN "Ok" ELSE "AccessDenied"

(***************************************************************************)
(* Data::check_permission (sequence/mod.rs).                               *)
(***************************************************************************)
\* check that consults the permissions without asking whether the requester is the owner
check_perm_permissions_only(r, requester, action) ==
    LET p == permissions(r, <<"FromEnd", 1>>) IN
    IF p = None THEN "AccessDenied"
    ELSE is_action_allowed(p[1], requester, action)

\* check that consults the first permission snapshot of the history
check_perm_first_permissions(r, requester, action) ==
    IF check_is_last_owner(r, requester) = "Ok" THEN "Ok"
    ELSE LET p == permissions(r, <<"FromStart", 0>>) IN
         IF p = None THEN "AccessDenied"
         ELSE is_action_allowed(p[1], requester, action)

\* check that permits when there is no permission snapshot to consult
check_perm_no_snapshot_allows(r, requester, action) ==
    IF check_is_last_owner(r, requester) = "Ok" THEN "Ok"
    ELSE LET p == permissions(r, <<"FromEnd", 1>>) IN
         IF p = None THEN "Ok"
         ELSE is_action_allowed(p[1], requester, action)

check_perm(r, requester, action) ==
    IF check_is_last_owner(r, requester) = "Ok" THEN "Ok"
    ELSE LET p == permissions(r, <<"FromEnd", 1>>) IN
         IF p = None THEN "AccessDenied"
         ELSE is_action_allowed(p[1], requester, action)

\* check without the early return for reads of a public object
check_permission_no_read_return(r, action, requester) ==
    check_perm(r, requester, action)

check_permission(r, action, requester) ==
    IF kind = "Public"
    THEN IF action[1] = "Query" THEN "Ok" ELSE check_perm(r, requester, action)
    ELSE check_perm(r, requester, action)

(***************************************************************************)
(* Local operations of Data (sequence/mod.rs).  Each returns a WriteOp     *)
(* whose crdt_op is added to ops.                                          *)
(***************************************************************************)
DataOps == {o \in ops : o.hist = "data"}
PermsOps == {o \in ops : o.hist = "perms"}
OwnersOps == {o \in ops : o.hist = "owners"}

\* a call that returns an error and changes nothing
Rejected(call, error) ==
    /\ res' = [call |-> call, args |-> << >>, out |-> error]
    /\ UNCHANGED <<envelope, keypairs, full_id, kind, address, actor, data, perms, owners, ops, applied, redelivered>>

\* append whose element reuses the last counter of its actor
append_stale_counter(r, entry) ==
    /\ Cardinality(ops) < MaxOps
    /\ LET n == NewElement(data[r], actor[r], entry)
           e == [n EXCEPT !.counter = IF @ > 1 THEN @ - 1 ELSE @]
           op == [hist |-> "data", elem |-> e, address |-> address] IN
       /\ data' = [data EXCEPT ![r] = Merge(@, e)]
       /\ ops' = ops \cup {op}
       /\ applied' = [applied EXCEPT ![r] = @ \cup {op}]
    /\ res' = [call |-> "append", args |-> << >>, out |-> "Ok"]
    /\ UNCHANGED <<envelope, keypairs, full_id, kind, address, actor, perms, owners, redelivered>>

\* append whose WriteOp names the public object of the same name and tag
append_pub_address(r, entry) ==
    /\ Cardinality(ops) < MaxOps
    /\ LET e == NewElement(data[r], actor[r], entry)
           op == [hist |-> "data", elem |-> e, address |-> new_pub(name, tag).address] IN
       /\ data' = [data EXCEPT ![r] = Merge(@, e)]
       /\ ops' = ops \cup {op}
       /\ applied' = [applied EXCEPT ![r] = @ \cup {op}]
    /\ res' = [call |-> "append", args |-> << >>, out |-> "Ok"]
    /\ UNCHANGED <<envelope, keypairs, full_id, kind, address, actor, perms, owners, redelivered>>

\* Data::append
append(r, entry) ==
    /\ Cardinality(ops) < MaxOps
    /\ LET e == NewElement(data[r], actor[r], entry)
           op == [hist |-> "data", elem |-> e, address |-> address] IN
       /\ data' = [data EXCEPT ![r] = Merge(@, e)]
       /\ ops' = ops \cup {op}
       /\ applied' = [applied EXCEPT ![r] = @ \cup {op}]
    /\ res' = [call |-> "append", args |-> << >>, out |-> "Ok"]
    /\ UNCHANGED <<envelope, keypairs, full_id, kind, address, actor, perms, owners, redelivered>>

\* SequenceCrdt::append_permissions with the snapshot the caller built
append_permissions(call, r, snapshot) ==
    /\ Cardinality(ops) < MaxOps
    /\ LET e == NewElement(perms[r], actor[r], snapshot)
           op == [hist |-> "perms", elem |-> e, address |-> address] IN
       /\ perms' = [perms EXCEPT ![r] = Merge(@, e)]
       /\ ops' = ops \cup {op}
       /\ applied' = [applied EXCEPT ![r] = @ \cup {op}]
    /\ res' = [call |-> call, args |-> << >>, out |-> "Ok"]
    /\ UNCHANGED <<envelope, keypairs, full_id, kind, address, actor, data, owners, redelivered>>

\* SequenceCrdt::append_owner with the snapshot the caller built
append_owner(call, r, snapshot) ==
    /\ Cardinality(ops) < MaxOps
    /\ LET e == NewElement(owners[r], actor[r], snapshot)
           op == [hist |-> "owners", elem |-> e, address |-> address] IN
       /\ owners' = [owners EXCEPT ![r] = Merge(@, e)]
       /\ ops' = ops \cup {op}
       /\ applied' = [applied EXCEPT ![r] = @ \cup {op}]
    /\ res' = [call |-> call, args |-> << >>, out |-> "Ok"]
    /\ UNCHANGED <<envelope, keypairs, full_id, kind, address, actor, data, perms, redelivered>>

\* set_pub_permissions that appends whatever the visibility of the object
set_pub_permissions_any_visibility(r, user_permissions) ==
    append_permissions("set_pub_permissions", r,
                       [variant |-> "Public",
                        permissions |-> user_permissions,
                        expected_data_index |-> entries_index(r),
                        expected_owners_index |-> owners_index(r)])

\* Data::set_pub_permissions
set_pub_permissions(r, user_permissions) ==
    IF kind = "Public"
    THEN append_permissions("set_pub_permissions", r,
                            [variant |-> "Public",
                             permissions |-> user_permissions,
                             expected_data_index |-> entries_index(r),
                             expected_owners_index |-> owners_index(r)])
    ELSE Rejected("set_pub_permissions", "InvalidOperation")

\* set_private_permissions that records the two indices in each other's field
set_private_permissions_swapped_indices(r, user_permissions) ==
    IF kind = "Private"
    THEN append_permissions("set_private_permissions", r,
                            [variant |-> "Private",
                             permissions |-> user_permissions,
                             expected_data_index |-> owners_index(r),
                             expected_owners_index |-> entries_index(r)])
    ELSE Rejected("set_private_permissions", "InvalidOperation")

\* Data::set_private_permissions
set_private_permissions(r, user_permissions) ==
    IF kind = "Private"
    THEN append_permissions("set_private_permissions", r,
                            [variant |-> "Private",
                             permissions |-> user_permissions,
                             expected_data_index |-> entries_index(r),
                             expected_owners_index |-> owners_index(r)])
    ELSE Rejected("set_private_permissions", "InvalidOperation")

\* set_owner that records an entries index one past the current one
set_owner_index_ahead(r, public_key) ==
    append_owner("set_owner", r,
                 [public_key |-> public_key,
                  expected_data_index |-> entries_index(r) + 1,
                  expected_permissions_index |-> permissions_index(r)])

\* Data::set_owner
set_owner(r, public_key) ==
    append_owner("set_owner", r,
                 [public_key |-> public_key,
                  expected_data_index |-> entries_index(r),
                  expected_permissions_index |-> permissions_index(r)])

(***************************************************************************)
(* Remote merge of Data (sequence/mod.rs).                                 *)
(***************************************************************************)
\* Data::apply_crdt_op
apply_crdt_op(r, op) ==
    /\ data' = [data EXCEPT ![r] = Merge(@, op.elem)]
    /\ applied' = [applied EXCEPT ![r] = @ \cup {op}]
    /\ redelivered' = (redelivered \/ op \in applied[r])
    /\ res' = [call |-> "apply_crdt_op", args |-> << >>, out |-> "Ok"]
    /\ UNCHANGED <<envelope, keypairs, full_id, kind, address, actor, perms, owners, ops>>

\* SequenceCrdt::apply_crdt_perms_op
apply_crdt_perms_op(call, r, op) ==
    /\ perms' = [perms EXCEPT ![r] = Merge(@, op.elem)]
    /\ applied' = [applied EXCEPT ![r] = @ \cup {op}]
    /\ redelivered' = (redelivered \/ op \in applied[r])
    /\ res' = [call |-> call, args |-> << >>, out |-> "Ok"]
    /\ UNCHANGED <<envelope, keypairs, full_id, kind, address, actor, data, owners, ops>>

\* Data::apply_crdt_pub_perms_op
apply_crdt_pub_perms_op(r, op) ==
    IF kind = "Public"
    THEN apply_crdt_perms_op("apply_crdt_pub_perms_op", r, op)
    ELSE Rejected("apply_crdt_pub_perms_op", "InvalidOperation")

\* apply that merges a private-permission operation whatever the visibility of
\* the object
apply_crdt_private_perms_op_any_visibility(r, op) ==
    apply_crdt_perms_op("apply_crdt_private_perms_op", r, op)

\* Data::apply_crdt_private_perms_op
apply_crdt_private_perms_op(r, op) ==
    IF kind = "Private"
    THEN apply_crdt_perms_op("apply_crdt_private_perms_op", r, op)
    ELSE Rejected("apply_crdt_private_perms_op", "InvalidOperation")

\* apply that merges an owner operation only when the indices recorded in its
\* snapshot equal the lengths of the receiving replica
apply_crdt_owner_op_guarded(r, op) ==
    /\ owners' = [owners EXCEPT ![r] =
                     IF /\ op.elem.val.expected_data_index = entries_index(r)
                        /\ op.elem.val.expected_permissions_index = permissions_index(r)
                     THEN Merge(@, op.elem) ELSE @]
    /\ applied' = [applied EXCEPT ![r] = @ \cup {op}]
    /\ redelivered' = (redelivered \/ op \in applied[r])
    /\ res' = [call |-> "apply_crdt_owner_op", args |-> << >>, out |-> "Ok"]
    /\ UNCHANGED <<envelope, keypairs, full_id, kind, address, actor, data, perms, ops>>

\* apply that keeps only the owner handed in last
apply_crdt_owner_op_latest_only(r, op) ==
    /\ owners' = [owners EXCEPT ![r] = IF Seen(@, op.elem) THEN @ ELSE <<op.elem>>]
    /\ applied' = [applied EXCEPT ![r] = @ \cup {op}]
    /\ redelivered' = (redelivered \/ op \in applied[r])
    /\ res' = [call |-> "apply_crdt_owner_op", args |-> << >>, out |-> "Ok"]
    /\ UNCHANGED <<envelope, keypairs, full_id, kind, address, actor, data, perms, ops>>

\* apply that merges the owner operation into the permission history
apply_crdt_owner_op_into_permissions(r, op) ==
    /\ perms' = [perms EXCEPT ![r] = Merge(@, op.elem)]
    /\ applied' = [applied EXCEPT ![r] = @ \cup {op}]
    /\ redelivered' = (redelivered \/ op \in applied[r])
    /\ res' = [call |-> "apply_crdt_owner_op", args |-> << >>, out |-> "Ok"]
    /\ UNCHANGED <<envelope, keypairs, full_id, kind, address, actor, data, owners, ops>>

\* Data::apply_crdt_owner_op
apply_crdt_owner_op(r, op) ==
    /\ owners' = [owners EXCEPT ![r] = Merge(@, op.elem)]
    /\ applied' = [applied EXCEPT ![r] = @ \cup {op}]
    /\ redelivered' = (redelivered \/ op \in applied[r])
    /\ res' = [call |-> "apply_crdt_owner_op", args |-> << >>, out |-> "Ok"]
    /\ UNCHANGED <<envelope, keypairs, full_id, kind, address, actor, data, perms, ops>>

\* Data::check_permission called for a request
CheckPermission(r, action, requester) ==
    /\ res' = [call |-> "check_permission", args |-> <<action, requester>>,
               out |-> check_permission(r, action, requester)]
    /\ UNCHANGED <<envelope, keypairs, full_id, kind, address, actor, data, perms, owners, ops, applied, redelivered>>

Next ==
    \/ \E r \in Replicas, entry \in Entries : append(r, entry)
    \/ \E r \in Replicas, p \in PubPermissionChoices : set_pub_permissions(r, p)
    \/ \E r \in Replicas, p \in PrivPermissionChoices : set_private_permissions(r, p)
    \/ \E r \in Replicas, k \in Keys : set_owner(r, k)
    \/ \E r \in Replicas, op \in DataOps : apply_crdt_op(r, op)
    \/ \E r \in Replicas, op \in {o \in PermsOps : o.elem.val.variant = "Public"} :
           apply_crdt_pub_perms_op(r, op)
    \/ \E r \in Replicas, op \in {o \in PermsOps : o.elem.val.variant = "Private"} :
           apply_crdt_private_perms_op(r, op)
    \/ \E r \in Replicas, op \in OwnersOps : apply_crdt_owner_op(r, op)

Spec == Init /\ [][Next]_vars

(***************************************************************************)
(* Concurrency guard: the index-checked setters exercised by               *)
(* access_control/tests.rs, in front of the history appends.               *)
(***************************************************************************)
\* guard that does not compare the snapshot's expected owners index
guarded_set_permissions_no_owners_check(r, snapshot, expected_index) ==
    IF snapshot.expected_data_index # entries_index(r)
    THEN Rejected("set_permissions", "InvalidExpectedIndex")
    ELSE IF expected_index # permissions_index(r)
    THEN Rejected("set_permissions", "InvalidExpectedIndex")
    ELSE append_permissions("set_permissions", r, snapshot)

\* set_permissions(permissions, index)
guarded_set_permissions(r, snapshot, expected_index) ==
    IF snapshot.expected_data_index # entries_index(r)
    THEN Rejected("set_permissions", "InvalidExpectedIndex")
    ELSE IF snapshot.expected_owners_index # owners_index(r)
    THEN Rejected("set_permissions", "InvalidExpectedIndex")
    ELSE IF expected_index # permissions_index(r)
    THEN Rejected("set_permissions", "InvalidExpectedIndex")
    ELSE append_permissions("set_permissions", r, snapshot)

\* guard that does not compare the declared index with the owner history
guarded_set_owner_no_index_check(r, snapshot, expected_index) ==
    IF snapshot.expected_data_index # entries_index(r)
    THEN Rejected("set_owner_at", "InvalidExpectedIndex")
    ELSE IF snapshot.expected_permissions_index # permissions_index(r)
    THEN Rejected("set_owner_at", "InvalidExpectedIndex")
    ELSE append_owner("set_owner_at", r, snapshot)

\* guard that compares the snapshot's expected permissions index with the owner history
guarded_set_owner_wrong_history(r, snapshot, expected_index) ==
    IF snapshot.expected_data_index # entries_index(r)
    THEN Rejected("set_owner_at", "InvalidExpectedIndex")
    ELSE IF snapshot.expected_permissions_index # owners_index(r)
    THEN Rejected("set_owner_at", "InvalidExpectedIndex")
    ELSE IF expected_index # owners_index(r)
    THEN Rejected("set_owner_at", "InvalidExpectedIndex")
    ELSE append_owner("set_owner_at", r, snapshot)

\* guard that does not compare the snapshot's expected permissions index
guarded_set_owner_no_permissions_check(r, snapshot, expected_index) ==
    IF snapshot.expected_data_index # entries_index(r)
    THEN Rejected("set_owner_at", "InvalidExpectedIndex")
    ELSE IF expected_index # owners_index(r)
    THEN Rejected("set_owner_at", "InvalidExpectedIndex")
    ELSE append_owner("set_owner_at", r, snapshot)

\* set_owner(owner, index)
guarded_set_owner(r, snapshot, expected_index) ==
    IF snapshot.expected_data_index # entries_index(r)
    THEN Rejected("set_owner_at", "InvalidExpectedIndex")
    ELSE IF snapshot.expected_permissions_index # permissions_index(r)
    THEN Rejected("set_owner_at", "InvalidExpectedIndex")
    ELSE IF expected_index # owners_index(r)
    THEN Rejected("set_owner_at", "InvalidExpectedIndex")
    ELSE append_owner("set_owner_at", r, snapshot)

\* snapshots a caller passes to the index-checked setters
GuardPermissionMaps == {<< >>}
GuardOwnerKeys == {1}

PermissionSnapshots ==
    [variant : {kind}, permissions : GuardPermissionMaps,
     expected_data_index : Indices, expected_owners_index : Indices]

OwnerSnapshots ==
    [public_key : GuardOwnerKeys, expected_data_index : Indices,
     expected_permissions_index : Indices]

NextGuard ==
    \/ \E r \in Replicas : append(r, "value0")
    \/ \E r \in Replicas, idx \in Indices : \E snapshot \in PermissionSnapshots :
           guarded_set_permissions(r, snapshot, idx)
    \/ \E r \in Replicas, snapshot \in OwnerSnapshots, idx \in Indices :
           guarded_set_owner(r, snapshot, idx)
    \/ \E r \in Replicas, op \in DataOps : apply_crdt_op(r, op)
    \/ \E r \in Replicas, op \in {o \in PermsOps : o.elem.val.variant = "Public"} :
           apply_crdt_pub_perms_op(r, op)
    \/ \E r \in Replicas, op \in {o \in PermsOps : o.elem.val.variant = "Private"} :
           apply_crdt_private_perms_op(r, op)
    \/ \E r \in Replicas, op \in OwnersOps : apply_crdt_owner_op(r, op)

SpecGuard == Init /\ [][NextGuard]_vars

(***************************************************************************)
(* Evaluation of one snapshot: replica 1 holds at most one owner snapshot  *)
(* and one permission snapshot, the permission map ranging over every map  *)
(* of Users to PermissionSets; requests are then checked against it.       *)
(***************************************************************************)
AllPubPermissions == UNION {[U -> PermissionSets] : U \in SUBSET Users}
AllPrivPermissions == UNION {[U -> PermissionSets] : U \in SUBSET Keys}

\* the histories replica 1 holds after set_owner(2), if called, and then
\* set_pub_permissions(m) or set_private_permissions(m), if called
EvalOwners(withOwner) ==
    IF withOwner
    THEN << [pos |-> 1, actor |-> 1, counter |-> 1,
             val |-> [public_key |-> 2, expected_data_index |-> 0,
                      expected_permissions_index |-> 0]] >>
    ELSE << >>

EvalPerms(k, withOwner, m) ==
    << [pos |-> 1, actor |-> 1, counter |-> 1,
        val |-> [variant |-> k, permissions |-> m, expected_data_index |-> 0,
                 expected_owners_index |-> IF withOwner THEN 1 ELSE 0]] >>

InitEval ==
    /\ \E d \in {new_pub("name0", 43000), new_private("name0", 43000)} :
          kind = d.variant /\ address = d.address
    /\ actor = [r \in Replicas |-> r]
    /\ data = [r \in Replicas |-> << >>]
    /\ \E withOwner \in BOOLEAN :
         /\ owners = [r \in Replicas |-> IF r = 1 THEN EvalOwners(withOwner) ELSE << >>]
         /\ \/ perms = [r \in Replicas |-> << >>]
            \/ \E m \in (IF kind = "Public" THEN AllPubPermissions ELSE AllPrivPermissions) :
                  perms = [r \in Replicas |-> IF r = 1 THEN EvalPerms(kind, withOwner, m)
                                                        ELSE << >>]
    /\ ops = {[hist |-> "owners", elem |-> owners[1][i], address |-> address] :
                   i \in 1..Len(owners[1])}
              \cup {[hist |-> "perms", elem |-> perms[1][i], address |-> address] :
                       i \in 1..Len(perms[1])}
    /\ applied = [r \in Replicas |-> IF r = 1 THEN ops ELSE {}]
    /\ redelivered = FALSE
    /\ OtherSubsystemsIdle
    /\ res = [call |-> "new", args |-> << >>, out |-> "Ok"]

NextEval ==
    \E action \in Request, requester \in Keys : CheckPermission(1, action, requester)

SpecEval == InitEval /\ [][NextEval]_vars

(***************************************************************************)
(* Read accessors of Data (sequence/mod.rs): replica 1 appends locally and  *)
(* is queried at every index.                                              *)
(***************************************************************************)
\* Index::FromStart(i), Index::FromEnd(i)
Index == {"FromStart", "FromEnd"} \X Indices

\* Result<T>: Ok(value) or Err(error)
Ok(value) == [out |-> "Ok", value |-> value]
Err(error) == [out |-> error]

\* Data::pub_permissions
pub_permissions(r, index) ==
    IF kind = "Public"
    THEN LET p == permissions(r, index) IN
         IF p = None THEN Err("NoSuchEntry") ELSE Ok(p[1])
    ELSE Err("InvalidOperation")

\* Data::private_permissions
private_permissions(r, index) ==
    IF kind = "Private"
    THEN LET p == permissions(r, index) IN
         IF p = None THEN Err("NoSuchEntry") ELSE Ok(p[1])
    ELSE Err("InvalidOperation")

\* user_permissions that reports a user without an entry as an empty set
user_permissions_absent_is_empty(r, user, index) ==
    LET p == permissions(r, index) IN
    IF p = None THEN Err("NoSuchEntry")
    ELSE LET u == MapGet(p[1].permissions, user) IN
         IF u = None THEN Ok(<< >>) ELSE Ok(u[1])

\* Data::user_permissions
user_permissions(r, user, index) ==
    LET p == permissions(r, index) IN
    IF p = None THEN Err("NoSuchEntry")
    ELSE LET u == MapGet(p[1].permissions, user) IN
         IF u = None THEN Err("NoSuchEntry") ELSE Ok(u[1])

\* a call of a read accessor, its result recorded
Returned(call, args, result) ==
    /\ res' = [call |-> call, args |-> args] @@ result
    /\ UNCHANGED <<envelope, keypairs, full_id, kind, address, actor, data, perms, owners, ops, applied, redelivered>>

\* get that takes the entry it returns out of the entry history
Get_take(r, index) ==
    /\ res' = [call |-> "get", args |-> <<index>>, out |-> "Ok", value |-> get(r, index)]
    /\ data' = [data EXCEPT ![r] =
                   LET i == to_absolute_index(index, Len(@)) IN
                   IF i # None /\ i[1] < Len(@)
                   THEN SubSeq(@, 1, i[1]) \o SubSeq(@, i[1] + 2, Len(@)) ELSE @]
    /\ UNCHANGED <<envelope, keypairs, full_id, kind, address, actor, perms, owners, ops, applied, redelivered>>

Get(r, index) ==
    Returned("get", <<index>>, [out |-> "Ok", value |-> get(r, index)])

Owner(r, index) ==
    Returned("owner", <<index>>, [out |-> "Ok", value |-> owner(r, index)])

PubPermissions(r, index) ==
    Returned("pub_permissions", <<index>>, pub_permissions(r, index))

PrivatePermissions(r, index) ==
    Returned("private_permissions", <<index>>, private_permissions(r, index))

UserPermissions(r, user, index) ==
    Returned("user_permissions", <<user, index>>, user_permissions(r, user, index))

\* permission maps a caller passes in, an entry with an empty set among them
ApiPubPermissionChoices ==
    { (1 :> << >>), (Anyone :> (<<"Cmd", "Append">> :> TRUE)) }

ApiPrivPermissionChoices ==
    { (1 :> << >>), (2 :> (<<"Query", "ReadData">> :> TRUE)) }

\* Data::new_pub / Data::new_private, each replica under an actor of its own
InitApi ==
    /\ \E d \in {new_pub("name0", 43000), new_private("name0", 43000)} :
          kind = d.variant /\ address = d.address
    /\ actor = [r \in Replicas |-> r]
    /\ data = [r \in Replicas |-> << >>]
    /\ perms = [r \in Replicas |-> << >>]
    /\ owners = [r \in Replicas |-> << >>]
    /\ ops = {}
    /\ applied = [r \in Replicas |-> {}]
    /\ redelivered = FALSE
    /\ OtherSubsystemsIdle
    /\ res = [call |-> "new", args |-> << >>, out |-> "Ok"]

NextRead ==
    \/ append(1, "value0")
    \/ \E p \in ApiPubPermissionChoices : set_pub_permissions(1, p)
    \/ \E p \in ApiPrivPermissionChoices : set_private_permissions(1, p)
    \/ set_owner(1, 1)
    \/ \E index \in Index : Get(1, index)
    \/ \E index \in Index : Owner(1, index)
    \/ \E index \in Index : PubPermissions(1, index)
    \/ \E index \in Index : PrivatePermissions(1, index)
    \/ \E user \in Users, index \in Index : UserPermissions(1, user, index)

SpecRead == InitApi /\ [][NextRead]_vars

(***************************************************************************)
(* Remote merge on one replica: replica 1 appends locally and is handed    *)
(* its own operations again and operations emitted elsewhere, permission   *)
(* operations of the other variant among them.                             *)
(***************************************************************************)
\* operations emitted elsewhere under actor 2: an entry, an owner snapshot and a
\* permission snapshot of either variant
ForeignDataOps ==
    { [hist |-> "data", elem |-> [pos |-> 1, actor |-> 2, counter |-> 1, val |-> "value1"],
       address |-> address] }

ForeignOwnersOps ==
    { [hist |-> "owners",
       elem |-> [pos |-> 1, actor |-> 2, counter |-> 1,
                 val |-> [public_key |-> 2, expected_data_index |-> 0,
                          expected_permissions_index |-> 0]],
       address |-> address] }

ForeignPermsOps ==
    { [hist |-> "perms",
       elem |-> [pos |-> 1, actor |-> 2, counter |-> 1,
                 val |-> [variant |-> v, permissions |-> << >>, expected_data_index |-> 0,
                          expected_owners_index |-> 0]],
       address |-> address] : v \in {"Public", "Private"} }

NextMerge ==
    \/ append(1, "value0")
    \/ \E p \in ApiPubPermissionChoices : set_pub_permissions(1, p)
    \/ \E p \in ApiPrivPermissionChoices : set_private_permissions(1, p)
    \/ set_owner(1, 1)
    \/ \E op \in DataOps \cup ForeignDataOps : apply_crdt_op(1, op)
    \/ \E op \in {o \in PermsOps \cup ForeignPermsOps : o.elem.val.variant = "Public"} :
           apply_crdt_pub_perms_op(1, op)
    \/ \E op \in {o \in PermsOps \cup ForeignPermsOps : o.elem.val.variant = "Private"} :
           apply_crdt_private_perms_op(1, op)
    \/ \E op \in OwnersOps \cup ForeignOwnersOps : apply_crdt_owner_op(1, op)

SpecMerge == InitApi /\ [][NextMerge]_vars

(***************************************************************************)
(* One object driven through the index-checked setters by owners of        *)
(* either key (gets_sequence_shell of access_control/tests.rs).            *)
(***************************************************************************)
ScenarioOwnerSnapshots ==
    [public_key : Keys, expected_data_index : Indices,
     expected_permissions_index : Indices]

NextScenario ==
    \/ append(1, "value0")
    \/ \E snapshot \in ScenarioOwnerSnapshots, idx \in Indices :
           guarded_set_owner(1, snapshot, idx)
    \/ \E idx \in Indices : \E snapshot \in PermissionSnapshots :
           guarded_set_permissions(1, snapshot, idx)

SpecScenario == InitApi /\ [][NextScenario]_vars

(***************************************************************************)
(* Construction under every name and tag, followed by the local writes     *)
(* and remote merges of replica 1.                                         *)
(***************************************************************************)
InitCreate ==
    /\ \E n \in Names, t \in Tags :
          \/ /\ kind = new_pub(n, t).variant
             /\ address = new_pub(n, t).address
             /\ res = [call |-> "new_pub", args |-> <<n, t>>, out |-> "Ok"]
          \/ /\ kind = new_private(n, t).variant
             /\ address = new_private(n, t).address
             /\ res = [call |-> "new_private", args |-> <<n, t>>, out |-> "Ok"]
    /\ actor = [r \in Replicas |-> r]
    /\ data = [r \in Replicas |-> << >>]
    /\ perms = [r \in Replicas |-> << >>]
    /\ owners = [r \in Replicas |-> << >>]
    /\ ops = {}
    /\ applied = [r \in Replicas |-> {}]
    /\ redelivered = FALSE
    /\ OtherSubsystemsIdle

SpecCreate == InitCreate /\ [][NextMerge]_vars

(***************************************************************************)
(* Conversion of a QueryResponse into its payload (messaging/mod.rs).      *)
(***************************************************************************)
\* enum QueryResponse: each variant with the type its Result carries
QueryResponseVariants ==
    ("GetBlob" :> "Blob")
    @@ ("GetMap" :> "Map")
    @@ ("GetMapShell" :> "Map")
    @@ ("GetMapVersion" :> "u64")
    @@ ("ListMapEntries" :> "MapEntries")
    @@ ("ListMapKeys" :> "BTreeSet<Vec<u8>>")
    @@ ("ListMapValues" :> "MapValues")
    @@ ("ListMapUserPermissions" :> "MapPermissionSet")
    @@ ("ListMapPermissions" :> "BTreeMap<PublicKey, MapPermissionSet>")
    @@ ("GetMapValue" :> "MapValue")
    @@ ("GetSequence" :> "Sequence")
    @@ ("GetSequenceOwner" :> "SequenceOwner")
    @@ ("GetSequenceRange" :> "SequenceEntries")
    @@ ("GetSequenceLastEntry" :> "(u64, SequenceEntry)")
    @@ ("GetSequencePermissions" :> "SequencePermissions")
    @@ ("GetSequenceUserPermissions" :> "SequenceUserPermissions")
    @@ ("GetReplicaKeys" :> "ReplicaPublicKeySet")
    @@ ("GetBalance" :> "Money")
    @@ ("GetHistory" :> "Vec<ReplicaEvent>")
    @@ ("GetAccount" :> "(Vec<u8>, Signature)")
    @@ ("ListAuthKeysAndVersion" :> "(BTreeMap<PublicKey, AppPermissions>, u64)")

\* the invocations of try_from!: the ok_type and the variants it is given
TryFromImpls ==
    ("Blob" :> <<"GetBlob">>)
    @@ ("Map" :> <<"GetMap", "GetMapShell">>)
    @@ ("u64" :> <<"GetMapVersion">>)
    @@ ("MapEntries" :> <<"ListMapEntries">>)
    @@ ("BTreeSet<Vec<u8>>" :> <<"ListMapKeys">>)
    @@ ("MapValues" :> <<"ListMapValues">>)
    @@ ("MapPermissionSet" :> <<"ListMapUserPermissions">>)
    @@ ("BTreeMap<PublicKey, MapPermissionSet>" :> <<"ListMapPermissions">>)
    @@ ("MapValue" :> <<"GetMapValue">>)
    @@ ("Sequence" :> <<"GetSequence">>)
    @@ ("SequenceOwner" :> <<"GetSequenceOwner">>)
    @@ ("SequenceEntries" :> <<"GetSequenceRange">>)
    @@ ("(u64, SequenceEntry)" :> <<"GetSequenceLastEntry">>)
    @@ ("SequencePermissions" :> <<"GetSequencePermissions">>)
    @@ ("SequenceUserPermissions" :> <<"GetSequenceUserPermissions">>)
    @@ ("Money" :> <<"GetBalance">>)
    @@ ("ReplicaPublicKeySet" :> <<"GetReplicaKeys">>)
    @@ ("Vec<ReplicaEvent>" :> <<"GetHistory">>)
    @@ ("(BTreeMap<PublicKey, AppPermissions>, u64)" :> <<"ListAuthKeysAndVersion">>)
    @@ ("(Vec<u8>, Signature)" :> <<"GetAccount">>)

\* payloads and errors a response carries
Payloads == {"payload0", "payload1"}
Errors == {"AccessDenied", "NoSuchData"}

\* QueryResponse::variant(Ok(data)) and QueryResponse::variant(Err(error))
QueryResponse ==
    [variant : DOMAIN QueryResponseVariants,
     result : {Ok(d) : d \in Payloads} \cup {Err(e) : e \in Errors}]

\* TryFromError::WrongType and TryFromError::Response(error)
WrongType == [out |-> "WrongType"]
Response(error) == [out |-> "Response", error |-> error]

\* conversion whose match has arms for the first variant of the invocation only
try_from_first_variant(ok_type, response) ==
    IF response.variant = TryFromImpls[ok_type][1]
    THEN IF response.result.out = "Ok" THEN Ok(response.result.value)
         ELSE Response(response.result.out)
    ELSE WrongType

\* TryFrom<QueryResponse> for ok_type, as try_from! generates it
try_from(ok_type, response) ==
    IF \E i \in 1..Len(TryFromImpls[ok_type]) : response.variant = TryFromImpls[ok_type][i]
    THEN IF response.result.out = "Ok" THEN Ok(response.result.value)
         ELSE Response(response.result.out)
    ELSE WrongType

\* ok_type::try_from(response)
TryFrom(ok_type, response) ==
    Returned("try_from", <<ok_type, response>>, try_from(ok_type, response))

NextConvert ==
    \E ok_type \in DOMAIN TryFromImpls, response \in QueryResponse : TryFrom(ok_type, response)

SpecConvert == InitApi /\ [][NextConvert]_vars

(***************************************************************************)
(* Every query and authorization check of Data (sequence/mod.rs), called   *)
(* between the local writes of one replica.                                *)
(***************************************************************************)
\* Data::in_range: the entries from start up to, not including, end
in_range(r, start, end) ==
    LET s == to_absolute_index(start, Len(data[r]))
        e == to_absolute_index(end, Len(data[r])) IN
    IF s = None \/ e = None THEN None
    ELSE IF s[1] >= e[1] \/ e[1] > Len(data[r]) THEN None
    ELSE Some([i \in 1..(e[1] - s[1]) |-> data[r][s[1] + i].val])

\* Data::last_entry
last_entry(r) == IF data[r] = << >> THEN None ELSE Some(data[r][Len(data[r])].val)

InRange(r, start, end) ==
    Returned("in_range", <<start, end>>, [out |-> "Ok", value |-> in_range(r, start, end)])

LastEntry(r) ==
    Returned("last_entry", << >>, [out |-> "Ok", value |-> last_entry(r)])

CheckIsLastOwner(r, requester) ==
    Returned("check_is_last_owner", <<requester>>, [out |-> check_is_last_owner(r, requester)])

NextQuery ==
    \/ append(1, "value0")
    \/ \E p \in ApiPubPermissionChoices : set_pub_permissions(1, p)
    \/ \E p \in ApiPrivPermissionChoices : set_private_permissions(1, p)
    \/ set_owner(1, 1)
    \/ \E action \in Request, requester \in Keys : CheckPermission(1, action, requester)
    \/ \E requester \in Keys : CheckIsLastOwner(1, requester)
    \/ \E index \in Index : Get(1, index)
    \/ \E start \in Index, end \in Index : InRange(1, start, end)
    \/ LastEntry(1)
    \/ \E index \in Index : Owner(1, index)
    \/ \E user \in Users, index \in Index : UserPermissions(1, user, index)
    \/ \E index \in Index : PubPermissions(1, index)
    \/ \E index \in Index : PrivatePermissions(1, index)

SpecQuery == InitApi /\ [][NextQuery]_vars

(***************************************************************************)
(* An envelope on its way: each party that handles it signs it, adds       *)
(* itself with with_proxy and passes the returned envelope on              *)
(* (messaging/mod.rs).                                                     *)
(***************************************************************************)
\* no Data object has been written to
DataIdle ==
    /\ kind = "Public" /\ address = new_pub("name0", 43000).address
    /\ actor = [r \in Replicas |-> r]
    /\ data = [r \in Replicas |-> << >>]
    /\ perms = [r \in Replicas |-> << >>]
    /\ owners = [r \in Replicas |-> << >>]
    /\ ops = {}
    /\ applied = [r \in Replicas |-> {}]
    /\ redelivered = FALSE

\* the senders an envelope can start from: the client, with a signature over the
\* message or with another one, and a node
Origins(message) ==
    { MsgSender_Client(Proof(ClientKey, Sign(ClientKey, serialise(message)))),
      MsgSender_Client(Proof(ClientKey, Forged(ClientKey))),
      MsgSender_Node(Metadata, Proof(SenderKeys[Metadata],
                                     Sign(SenderKeys[Metadata], serialise(message)))) }

\* the parties that can add themselves to self, each with its signature over
\* self or with another one
Proxies(self) ==
    UNION { { MsgSender_Node(duty, Proof(SenderKeys[duty], signatures[SenderKeys[duty]])) :
                duty \in {Gateway, Payment, Metadata} }
            \cup { MsgSender_Section(duty, Proof(SectionKeys[duty], signatures[SectionKeys[duty]])) :
                     duty \in {Payment, Metadata} } :
            signatures \in { [key \in 3..8 |-> Sign(key, serialise(self))],
                             [key \in 3..8 |-> Forged(key)] } }

InitEnvelope ==
    /\ \E message \in Messages : \E origin \in Origins(message) :
          envelope = MsgEnvelope(message, origin, << >>)
    /\ keypairs = NodeKeypairs_new(1)
    /\ full_id = FullId_new(1)
    /\ DataIdle
    /\ res = [call |-> "new", args |-> << >>, out |-> "Ok"]

WithProxy(proxy) ==
    /\ Len(envelope.proxies) < MaxProxies
    /\ Returned("with_proxy", <<proxy>>, Ok(with_proxy(envelope, proxy)))

\* the party hands the envelope with_proxy returned to the next one
Send ==
    /\ res.call = "with_proxy"
    /\ envelope' = res.value
    /\ res' = [call |-> "send", args |-> << >>, out |-> "Ok"]
    /\ UNCHANGED <<keypairs, full_id, kind, address, actor, data, perms, owners, ops, applied,
                   redelivered>>

Id == Returned("id", << >>, Ok(MsgEnvelope_id(envelope)))

MostRecentSender == Returned("most_recent_sender", << >>, Ok(most_recent_sender(envelope)))

Verify == Returned("verify", << >>, Ok(verify(envelope)))

Destination == Returned("destination", << >>, Ok(destination(envelope)))

NextEnvelope ==
    \/ \E proxy \in Proxies(envelope) : WithProxy(proxy)
    \/ Send
    \/ Id
    \/ MostRecentSender
    \/ Verify
    \/ Destination

SpecEnvelope == InitEnvelope /\ [][NextEnvelope]_vars

(***************************************************************************)
(* The keys of a node: NodeKeypairs and FullId (identity/node.rs).         *)
(***************************************************************************)
\* BLS secret key shares, indices and public key sets a node is handed, and the
\* data it signs
SecretShares == {1, 2}
ShareIndices == {0, 1}
PublicKeySets == {"public_set0"}
SignedData == {"data0", "data1"}

\* Ed25519Keypair::sign and BlsSecretKeyShare::sign
Ed25519_sign(secret, bytes) == [ed25519_secret |-> secret, signed |-> bytes]
Bls_sign(secret_share, bytes) == [bls_secret_share |-> secret_share, signed |-> bytes]

\* NodeKeypairs::sign_using_ed25519, FullId::sign_using_ed25519
sign_using_ed25519(self, bytes) ==
    [variant |-> "Ed25519", signature |-> Ed25519_sign(self.ed25519.secret, bytes)]

\* NodeKeypairs::sign_using_bls, FullId::sign_using_bls
sign_using_bls(self, bytes) ==
    IF self.bls = None THEN None
    ELSE Some([variant |-> "BlsShare",
               index |-> self.bls[1].index,
               share |-> Bls_sign(self.bls[1].secret, bytes)])

\* NodeKeypairs::public_key
NodeKeypairs_public_key(self) ==
    IF self.public_id.bls # None
    THEN PublicKey_BlsShare(self.public_id.bls[1])
    ELSE PublicKey_Ed25519(self.public_id.ed25519)

\* NodeKeypairs::sign
NodeKeypairs_sign(self, bytes) ==
    IF sign_using_bls(self, bytes) # None
    THEN sign_using_bls(self, bytes)[1]
    ELSE sign_using_ed25519(self, bytes)

\* the keys after set_bls_keys
with_bls_keys(self, index, secret_share, public_set) ==
    LET public == public_key_share(secret_share) IN
    [self EXCEPT !.public_id.bls = Some(public),
                 !.bls = Some([index |-> index,
                               secret |-> secret_share,
                               public |-> public,
                               public_key_set |-> public_set])]

\* the keys after clear_bls_keys
without_bls_keys(self) ==
    [self EXCEPT !.public_id.bls = None, !.bls = None]

\* NodeKeypairs::set_bls_keys
NodeKeypairs_set_bls_keys(index, secret_share, public_set) ==
    /\ keypairs' = with_bls_keys(keypairs, index, secret_share, public_set)
    /\ res' = [call |-> "NodeKeypairs::set_bls_keys",
               args |-> <<index, secret_share, public_set>>, out |-> "Ok"]
    /\ UNCHANGED <<envelope, full_id, kind, address, actor, data, perms, owners, ops, applied,
                   redelivered>>

\* clear_bls_keys that drops the private share and keeps the public one
NodeKeypairs_clear_bls_keys_private_only ==
    /\ keypairs' = [keypairs EXCEPT !.bls = None]
    /\ res' = [call |-> "NodeKeypairs::clear_bls_keys", args |-> << >>, out |-> "Ok"]
    /\ UNCHANGED <<envelope, full_id, kind, address, actor, data, perms, owners, ops, applied,
                   redelivered>>

\* NodeKeypairs::clear_bls_keys
NodeKeypairs_clear_bls_keys ==
    /\ keypairs' = without_bls_keys(keypairs)
    /\ res' = [call |-> "NodeKeypairs::clear_bls_keys", args |-> << >>, out |-> "Ok"]
    /\ UNCHANGED <<envelope, full_id, kind, address, actor, data, perms, owners, ops, applied,
                   redelivered>>

\* FullId::set_bls_keys: the share is recorded under index 0
FullId_set_bls_keys(secret_share, public_set) ==
    /\ full_id' = with_bls_keys(full_id, 0, secret_share, public_set)
    /\ res' = [call |-> "FullId::set_bls_keys", args |-> <<secret_share, public_set>>,
               out |-> "Ok"]
    /\ UNCHANGED <<envelope, keypairs, kind, address, actor, data, perms, owners, ops, applied,
                   redelivered>>

\* FullId::clear_bls_keys
FullId_clear_bls_keys ==
    /\ full_id' = without_bls_keys(full_id)
    /\ res' = [call |-> "FullId::clear_bls_keys", args |-> << >>, out |-> "Ok"]
    /\ UNCHANGED <<envelope, keypairs, kind, address, actor, data, perms, owners, ops, applied,
                   redelivered>>

PublicKey ==
    Returned("NodeKeypairs::public_key", << >>, Ok(NodeKeypairs_public_key(keypairs)))

SignBytes(bytes) ==
    Returned("NodeKeypairs::sign", <<bytes>>, Ok(NodeKeypairs_sign(keypairs, bytes)))

FullId_sign_using_bls(bytes) ==
    Returned("FullId::sign_using_bls", <<bytes>>, Ok(sign_using_bls(full_id, bytes)))

FullId_sign_using_ed25519(bytes) ==
    Returned("FullId::sign_using_ed25519", <<bytes>>, Ok(sign_using_ed25519(full_id, bytes)))

\* NodeKeypairs::new, FullId::new
InitNode ==
    /\ \E seed \in Seeds : keypairs = NodeKeypairs_new(seed)
    /\ \E seed \in Seeds : full_id = FullId_new(seed)
    /\ envelope = ClientEnvelope(CHOOSE message \in Messages : message.id = 1)
    /\ DataIdle
    /\ res = [call |-> "new", args |-> << >>, out |-> "Ok"]

NextNode ==
    \/ \E index \in ShareIndices, secret_share \in SecretShares, public_set \in PublicKeySets :
          NodeKeypairs_set_bls_keys(index, secret_share, public_set)
    \/ NodeKeypairs_clear_bls_keys
    \/ PublicKey
    \/ \E bytes \in SignedData : SignBytes(bytes)
    \/ \E secret_share \in SecretShares, public_set \in PublicKeySets :
          FullId_set_bls_keys(secret_share, public_set)
    \/ FullId_clear_bls_keys
    \/ \E bytes \in SignedData : FullId_sign_using_bls(bytes)
    \/ \E bytes \in SignedData : FullId_sign_using_ed25519(bytes)

SpecNode == InitNode /\ [][NextNode]_vars

(***************************************************************************)
(* Properties.                                                             *)
(***************************************************************************)
Hist(r, h) == IF h = "data" THEN data[r] ELSE IF h = "perms" THEN perms[r] ELSE owners[r]

\* number of positions of history h holding element e
Count(h, e) == Cardinality({i \in 1..Len(h) : h[i] = e})

\* every replica was constructed with an actor of its own
DistinctActors == \A r1, r2 \in Replicas : r1 # r2 => actor[r1] # actor[r2]

SameContents(r1, r2) ==
    /\ data[r1] = data[r2]
    /\ perms[r1] = perms[r2]
    /\ owners[r1] = owners[r2]

MergeIdempotent ==
    [][\A r \in Replicas : \A op \in applied[r] :
          ( \/ op.hist = "data" /\ apply_crdt_op(r, op)
            \/ op.hist = "perms" /\ apply_crdt_pub_perms_op(r, op)
            \/ op.hist = "perms" /\ apply_crdt_private_perms_op(r, op)
            \/ op.hist = "owners" /\ apply_crdt_owner_op(r, op) )
          => UNCHANGED <<data, perms, owners>>]_vars

\* an operation was re-delivered and every merged operation still occupies one position
MergeIdempotentWitness ==
    /\ redelivered
    /\ \E r \in Replicas : \E op \in applied[r] :
          /\ \E q \in Replicas : q # r /\ op \in applied[q]
          /\ Count(Hist(r, op.hist), op.elem) = 1

StalePermissions(r, snapshot, expected_index) ==
    \/ snapshot.expected_data_index # Len(data[r])
    \/ snapshot.expected_owners_index # Len(owners[r])
    \/ expected_index # Len(perms[r])

\* the indices declared with an owner snapshot differ from replica r's lengths
StaleOwner(r, snapshot, expected_index) ==
    \/ snapshot.expected_data_index # Len(data[r])
    \/ snapshot.expected_permissions_index # Len(perms[r])
    \/ expected_index # Len(owners[r])

\* C4: set_permissions(snapshot, expected_index) with a declared data, owners or
\* permissions index that differs from the current length returns an error, emits
\* no operation and leaves the three histories as they were.
GuardRejectsStalePermissions ==
    [][\/ /\ res'.out = "InvalidExpectedIndex"
          /\ UNCHANGED <<data, perms, owners, ops>>
       \/ \A r \in Replicas, idx \in Indices : \A snapshot \in PermissionSnapshots :
             ~(StalePermissions(r, snapshot, idx) /\ guarded_set_permissions(r, snapshot, idx))]_vars

\* a stale set_permissions was rejected on an object that already holds a snapshot
GuardRejectsStalePermissionsWitness ==
    /\ res.call = "set_permissions"
    /\ res.out = "InvalidExpectedIndex"
    /\ \E r \in Replicas : Len(perms[r]) = 1

\* C5: set_owner(snapshot, expected_index) with a declared data, permissions or
\* owners index that differs from the current length returns an error, emits no
\* operation and leaves the three histories as they were.
GuardRejectsStaleOwner ==
    [][\/ /\ res'.out = "InvalidExpectedIndex"
          /\ UNCHANGED <<data, perms, owners, ops>>
       \/ \A r \in Replicas, idx \in Indices : \A snapshot \in OwnerSnapshots :
             ~(StaleOwner(r, snapshot, idx) /\ guarded_set_owner(r, snapshot, idx))]_vars

\* a stale set_owner was rejected on an object that already holds an owner
GuardRejectsStaleOwnerWitness ==
    /\ res.call = "set_owner_at"
    /\ res.out = "InvalidExpectedIndex"
    /\ \E r \in Replicas : Len(owners[r]) = 1

\* the snapshots whose declared indices equal replica r's current lengths
CurrentPermissionSnapshot(r, m) ==
    [variant |-> kind, permissions |-> m,
     expected_data_index |-> Len(data[r]), expected_owners_index |-> Len(owners[r])]

CurrentOwnerSnapshot(r, k) ==
    [public_key |-> k,
     expected_data_index |-> Len(data[r]), expected_permissions_index |-> Len(perms[r])]

\* C6: set_permissions / set_owner whose declared indices all equal the current
\* lengths succeeds and lengthens the targeted history of the replica by one, the
\* lengths of its other two histories staying as they were.
GuardAcceptsCurrent ==
    [][\A r \in Replicas :
          /\ \A m \in GuardPermissionMaps :
                guarded_set_permissions(r, CurrentPermissionSnapshot(r, m), Len(perms[r]))
                => /\ res'.out = "Ok"
                   /\ Len(perms'[r]) = Len(perms[r]) + 1
                   /\ Len(data'[r]) = Len(data[r])
                   /\ Len(owners'[r]) = Len(owners[r])
          /\ \A k \in GuardOwnerKeys :
                guarded_set_owner(r, CurrentOwnerSnapshot(r, k), Len(owners[r]))
                => /\ res'.out = "Ok"
                   /\ Len(owners'[r]) = Len(owners[r]) + 1
                   /\ Len(data'[r]) = Len(data[r])
                   /\ Len(perms'[r]) = Len(perms[r])]_vars

\* an owner was set with current indices on a replica whose permissions were set before
GuardAcceptsCurrentWitness ==
    /\ res.call = "set_owner_at"
    /\ res.out = "Ok"
    /\ \E r \in Replicas : Len(owners[r]) = 1 /\ Len(perms[r]) = 1

Last(h) == h[Len(h)]

\* C7: the key named by the latest owner snapshot of a replica is permitted every
\* request, with or without a permission snapshot and whatever the latest
\* permission snapshot stores for that key.
OwnerBypass ==
    \A r \in Replicas :
        owners[r] # << >> =>
            \A request \in Request :
                check_permission(r, request, Last(owners[r]).val.public_key) = "Ok"

\* the latest permission snapshot stores an explicit deny of a command for the latest owner
OwnerBypassWitness ==
    \E r \in Replicas :
        /\ owners[r] # << >>
        /\ perms[r] # << >>
        /\ LET o == Last(owners[r]).val.public_key
               p == Last(perms[r]).val.permissions IN
           /\ o \in DOMAIN p
           /\ \E request \in DOMAIN p[o] : request[1] = "Cmd" /\ ~p[o][request]
           /\ \A request \in Request : check_permission(r, request, o) = "Ok"

\* C8: on a public object every query is permitted to every key, with or without
\* owner and permission snapshots and whatever the latest snapshot stores for it.
PublicRead ==
    kind = "Public" =>
        \A r \in Replicas, requester \in Keys, request \in Request :
            request[1] = "Query" => check_permission(r, request, requester) = "Ok"

\* a public replica whose latest snapshot stores a deny of a query for a key that
\* is not its owner
PublicReadWitness ==
    /\ kind = "Public"
    /\ \E r \in Replicas, requester \in Keys :
          /\ perms[r] # << >>
          /\ check_is_last_owner(r, requester) # "Ok"
          /\ LET p == Last(perms[r]).val.permissions IN
             /\ requester \in DOMAIN p
             /\ \E request \in DOMAIN p[requester] :
                   /\ request[1] = "Query" /\ ~p[requester][request]
                   /\ check_permission(r, request, requester) = "Ok"

\* the flag the Anyone entry of permission map p stores for request, deny if none
AnyoneFlag(p, request) ==
    /\ Anyone \in DOMAIN p
    /\ request \in DOMAIN p[Anyone]
    /\ p[Anyone][request]

\* the decision for a request of requester on replica 1
Decision(request, requester) == check_permission(1, request, requester) = "Ok"

\* C9: on a public object, for a command of a key that is not the owner, the
\* decision is the flag the key's own entry stores for the command when it stores
\* one, whatever the Anyone entry says, and the Anyone entry's flag when the key
\* has no entry.
FallbackPrecedence ==
    (kind = "Public" /\ perms[1] # << >>) =>
        LET p == Last(perms[1]).val.permissions IN
        \A requester \in Keys, request \in Request :
            (request[1] = "Cmd" /\ check_is_last_owner(1, requester) # "Ok") =>
                /\ (requester \in DOMAIN p /\ request \in DOMAIN p[requester])
                       => (Decision(request, requester) <=> p[requester][request])
                /\ requester \notin DOMAIN p
                       => (Decision(request, requester) <=> AnyoneFlag(p, request))

\* a command the Anyone entry allows was denied to a key whose own entry denies it
FallbackPrecedenceWitness ==
    /\ kind = "Public"
    /\ perms[1] # << >>
    /\ res.call = "check_permission"
    /\ res.out = "AccessDenied"
    /\ LET p == Last(perms[1]).val.permissions
           request == res.args[1]
           requester == res.args[2] IN
       /\ request[1] = "Cmd"
       /\ AnyoneFlag(p, request)
       /\ requester \in DOMAIN p
       /\ request \in DOMAIN p[requester]
       /\ ~p[requester][request]

\* C10: on a public object, for a command of a key that is not the owner and whose
\* own entry stores no flag for that command, the decision is the Anyone entry's
\* flag for the command, deny if there is none, whatever the key's entry stores
\* for other requests.
SparseFallback ==
    (kind = "Public" /\ perms[1] # << >>) =>
        LET p == Last(perms[1]).val.permissions IN
        \A requester \in Keys, request \in Request :
            ( /\ request[1] = "Cmd"
              /\ check_is_last_owner(1, requester) # "Ok"
              /\ requester \in DOMAIN p
              /\ request \notin DOMAIN p[requester] )
            => (Decision(request, requester) <=> AnyoneFlag(p, request))

\* a command was permitted through the Anyone entry to a key whose own entry
\* stores flags for other commands only
SparseFallbackWitness ==
    /\ kind = "Public"
    /\ perms[1] # << >>
    /\ res.call = "check_permission"
    /\ res.out = "Ok"
    /\ LET p == Last(perms[1]).val.permissions
           request == res.args[1]
           requester == res.args[2] IN
       /\ request[1] = "Cmd"
       /\ check_is_last_owner(1, requester) # "Ok"
       /\ requester \in DOMAIN p
       /\ request \notin DOMAIN p[requester]
       /\ \E other \in DOMAIN p[requester] : other[1] = "Cmd" /\ p[requester][other]
       /\ AnyoneFlag(p, request)

\* C11: on a private object a request of a key that is not the owner, queries
\* included, is permitted exactly when the latest permission snapshot holds an
\* entry for that key storing the flag TRUE for the request; no entry, no flag
\* and a FALSE flag all deny.
PrivateDefaultDeny ==
    kind = "Private" =>
        \A requester \in Keys, request \in Request :
            check_is_last_owner(1, requester) # "Ok" =>
                ( Decision(request, requester)
                  <=> /\ perms[1] # << >>
                      /\ requester \in DOMAIN Last(perms[1]).val.permissions
                      /\ request \in DOMAIN Last(perms[1]).val.permissions[requester]
                      /\ Last(perms[1]).val.permissions[requester][request] )

\* a query was denied to a key whose entry on a private object grants a command
\* but stores no flag for the query
PrivateDefaultDenyWitness ==
    /\ kind = "Private"
    /\ perms[1] # << >>
    /\ res.call = "check_permission"
    /\ res.out = "AccessDenied"
    /\ LET p == Last(perms[1]).val.permissions
           request == res.args[1]
           requester == res.args[2] IN
       /\ request[1] = "Query"
       /\ requester \in DOMAIN p
       /\ request \notin DOMAIN p[requester]
       /\ \E other \in DOMAIN p[requester] : p[requester][other]

\* C12: on a replica with no permission snapshot a request of a key that is not
\* the current owner is permitted exactly when the object is public and the
\* request is a query; every other request is answered AccessDenied.
NoPermissionsDeny ==
    \A r \in Replicas :
        perms[r] = << >> =>
            \A requester \in Keys, request \in Request :
                check_is_last_owner(r, requester) # "Ok" =>
                    check_permission(r, request, requester)
                        = IF kind = "Public" /\ request[1] = "Query" THEN "Ok" ELSE "AccessDenied"

\* a query was denied on a private object with no owner and no permissions
NoPermissionsDenyWitness ==
    /\ kind = "Private"
    /\ perms[1] = << >>
    /\ owners[1] = << >>
    /\ res.call = "check_permission"
    /\ res.args[1][1] = "Query"
    /\ res.out = "AccessDenied"

\* the decision computed from the last owner snapshot and the last permission
\* snapshot of replica r alone
LatestDecision(r, request, requester) ==
    IF kind = "Public" /\ request[1] = "Query" THEN "Ok"
    ELSE IF owners[r] # << >> /\ Last(owners[r]).val.public_key = requester THEN "Ok"
    ELSE IF perms[r] = << >> THEN "AccessDenied"
    ELSE is_action_allowed(Last(perms[r]).val, requester, request)

FormerOwnerDenied ==
    \E r \in Replicas :
        /\ Len(owners[r]) = 2
        /\ owners[r][1].val.public_key # owners[r][2].val.public_key
        /\ check_permission(r, <<"Cmd", "Append">>, owners[r][1].val.public_key) = "AccessDenied"

\* no snapshot held by replica r records an index beyond the current length of
\* the history the index refers to
IndicesWithinLengths(r) ==
    /\ \A i \in 1..Len(perms[r]) :
          /\ perms[r][i].val.expected_data_index <= Len(data[r])
          /\ perms[r][i].val.expected_owners_index <= Len(owners[r])
    /\ \A i \in 1..Len(owners[r]) :
          /\ owners[r][i].val.expected_data_index <= Len(data[r])
          /\ owners[r][i].val.expected_permissions_index <= Len(perms[r])

\* C20 as stated: on every replica, after any mix of local appends and remote
\* merges, no stored snapshot records an index beyond the current length of the
\* history it refers to.
ExpectedIndicesWithinLengthsAlways ==
    \A r \in Replicas : IndicesWithinLengths(r)

\* C20 amended: on every replica that has merged every operation emitted so far,
\* no stored snapshot records an index beyond the current length of the history
\* it refers to.
ExpectedIndicesWithinLengths ==
    \A r \in Replicas : ops \subseteq applied[r] => IndicesWithinLengths(r)

\* a replica that has merged every operation holds an owner snapshot from the
\* other replica which records an entry appended before it
ExpectedIndicesWithinLengthsWitness ==
    \E r \in Replicas :
        /\ ops \subseteq applied[r]
        /\ Len(owners[r]) = 1
        /\ owners[r][1].actor # actor[r]
        /\ owners[r][1].val.expected_data_index = 1
        /\ Len(data[r]) = 1

\* history h holds exactly one more element than g, and e, as emitted, is one of them
AddedTo(g, h, e) ==
    /\ Len(h) = Len(g) + 1
    /\ \E i \in 1..Len(h) : h[i] = e

\* C19: a permission or owner operation that a replica has not merged before is
\* added to the matching history of the replica it is handed to, whatever the
\* indices recorded in its snapshot and the lengths of the receiving replica's
\* histories; the snapshot is stored as emitted and the call returns Ok.
RemoteBypassesGuard ==
    [][\A r \in Replicas :
          /\ \A op \in PermsOps :
                ( /\ ~Seen(perms[r], op.elem)
                  /\ \/ apply_crdt_pub_perms_op(r, op)
                     \/ apply_crdt_private_perms_op(r, op) )
                => (res'.out = "Ok" /\ AddedTo(perms[r], perms'[r], op.elem))
          /\ \A op \in OwnersOps :
                (~Seen(owners[r], op.elem) /\ apply_crdt_owner_op(r, op))
                => (res'.out = "Ok" /\ AddedTo(owners[r], owners'[r], op.elem))]_vars

\* a replica merged an owner snapshot of another replica whose recorded data index
\* is not the length of its own entry history
RemoteBypassesGuardWitness ==
    /\ res.call = "apply_crdt_owner_op"
    /\ res.out = "Ok"
    /\ \E r \in Replicas :
          /\ Len(owners[r]) = 1
          /\ owners[r][1].actor # actor[r]
          /\ owners[r][1].val.expected_data_index # Len(data[r])

OutOfRange(index, count) ==
    IF index[1] = "FromStart" THEN index[2] >= count
    ELSE index[2] = 0 \/ index[2] > count

MatchingVariantLookup(index) ==
    LET result == IF kind = "Public" THEN pub_permissions(1, index)
                  ELSE private_permissions(1, index) IN
    IF permissions(1, index) = None THEN result.out = "NoSuchEntry"
    ELSE result = Ok(permissions(1, index)[1])

\* the lookup of the permission variant the object does not hold
OtherVariantLookup(index) ==
    IF kind = "Public" THEN private_permissions(1, index) ELSE pub_permissions(1, index)

\* C17: the lookup of the permission variant the object does not hold fails with
\* NoSuchData at every index; the lookup of the variant it holds fails with
\* NoSuchEntry outside the permission history and returns the stored snapshot
\* inside it.
PermissionLookupErrors ==
    \A index \in Index :
        /\ OtherVariantLookup(index).out = "NoSuchData"
        /\ MatchingVariantLookup(index)

\* what Data answers: InvalidOperation for the variant the object does not hold
PermissionLookupInvalidOperation ==
    \A index \in Index :
        /\ OtherVariantLookup(index).out = "InvalidOperation"
        /\ MatchingVariantLookup(index)

\* C18: user_permissions(user, index) at an index holding a snapshot fails with
\* NoSuchEntry when the snapshot has no entry for the user, and returns the
\* stored set, also an empty one, when it has.
UserPermissionsEntry ==
    \A user \in Users, index \in Index :
        LET p == permissions(1, index) IN
        p # None =>
            IF user \in DOMAIN p[1].permissions
            THEN user_permissions(1, user, index) = Ok(p[1].permissions[user])
            ELSE user_permissions(1, user, index).out = "NoSuchEntry"

\* the empty set stored for a key was returned, and an absent user was reported
\* NoSuchEntry on the same snapshot
UserPermissionsEntryWitness ==
    /\ res.call = "user_permissions"
    /\ res.out = "Ok"
    /\ res.value = << >>
    /\ LET p == permissions(1, res.args[2]) IN
       /\ p # None
       /\ res.args[1] \in DOMAIN p[1].permissions
       /\ \E user \in Users :
             /\ user \notin DOMAIN p[1].permissions
             /\ user_permissions(1, user, res.args[2]).out = "NoSuchEntry"

\* the remote-merge calls of Data
ApplyCalls ==
    {"apply_crdt_op", "apply_crdt_pub_perms_op", "apply_crdt_private_perms_op",
     "apply_crdt_owner_op"}

\* the call that has just returned is for the permission variant the object does
\* not hold
OtherVariantCall(calls) ==
    /\ res'.call \in calls
    /\ \/ kind = "Private" /\ res'.call \in {"set_pub_permissions", "apply_crdt_pub_perms_op"}
       \/ kind = "Public" /\ res'.call \in {"set_private_permissions", "apply_crdt_private_perms_op"}

VisibilityMismatchRejected ==
    [][OtherVariantCall({"set_pub_permissions", "set_private_permissions",
                         "apply_crdt_pub_perms_op", "apply_crdt_private_perms_op"}) =>
          /\ res'.out = "InvalidOperation"
          /\ UNCHANGED <<data, perms, owners>>
          /\ UNCHANGED ops]_vars

\* a private object holding an entry, permissions and an owner answered
\* InvalidOperation to set_pub_permissions
VisibilityMismatchRejectedWitness ==
    /\ res.call = "set_pub_permissions"
    /\ res.out = "InvalidOperation"
    /\ kind = "Private"
    /\ data[1] # << >>
    /\ perms[1] # << >>
    /\ owners[1] # << >>

\* the owner snapshot of key k authored against data index 0 and the given
\* permissions index
ScenarioOwner(k, permissions_index_) ==
    [public_key |-> k, expected_data_index |-> 0,
     expected_permissions_index |-> permissions_index_]

\* a permission snapshot with expected_owners_index 1 was handed to
\* set_permissions on an object holding two owners, and rejected without
\* lengthening the permission history
StalePermissionsRejected ==
    Len(owners[1]) = 2 =>
        \A idx \in Indices : \A snapshot \in PermissionSnapshots :
            snapshot.expected_owners_index = 1 /\ guarded_set_permissions(1, snapshot, idx)
            => res'.out = "InvalidExpectedIndex" /\ Len(perms'[1]) = 0

\* the first owner, authored against indices 0 and 0, is accepted
FirstOwnerAccepted ==
    owners[1] = << >> /\ guarded_set_owner(1, ScenarioOwner(1, 0), 0)
    => res'.out = "Ok" /\ Len(owners'[1]) = 1

\* C21 as stated: on a new private object the owner O1 authored against
\* (data 0, permissions 0) is accepted, then the owner O2 authored against
\* (data 0, permissions 1) is accepted, then a permission snapshot with
\* expected_owners_index 1 is rejected and the permission history stays empty.
OwnershipScenarioAsStated ==
    [][kind = "Private" /\ data[1] = << >> /\ perms[1] = << >> =>
          /\ FirstOwnerAccepted
          /\ Len(owners[1]) = 1 /\ guarded_set_owner(1, ScenarioOwner(2, 1), 1)
             => res'.out = "Ok" /\ Len(owners'[1]) = 2
          /\ StalePermissionsRejected]_vars

\* C21 amended: the second owner O2 is accepted when authored against
\* (data 0, permissions 0) and declared at owners index 1, and rejected, the
\* owner history keeping its one element, when authored against permissions
\* index 1; the rest as stated.
OwnershipScenario ==
    [][kind = "Private" /\ data[1] = << >> /\ perms[1] = << >> =>
          /\ FirstOwnerAccepted
          /\ Len(owners[1]) = 1 /\ guarded_set_owner(1, ScenarioOwner(2, 0), 1)
             => res'.out = "Ok" /\ Len(owners'[1]) = 2
          /\ Len(owners[1]) = 1 /\ guarded_set_owner(1, ScenarioOwner(2, 1), 1)
             => res'.out = "InvalidExpectedIndex" /\ Len(owners'[1]) = 1
          /\ StalePermissionsRejected]_vars

\* the private object holds O1 then O2, no entry and no permissions, and has
\* just rejected set_permissions
OwnershipScenarioWitness ==
    /\ kind = "Private"
    /\ res.call = "set_permissions"
    /\ res.out = "InvalidExpectedIndex"
    /\ Len(owners[1]) = 2
    /\ owners[1][1].val = ScenarioOwner(1, 0)
    /\ owners[1][2].val = ScenarioOwner(2, 0)
    /\ data[1] = << >>
    /\ perms[1] = << >>

\* the three histories of an object
Histories == {"data", "perms", "owners"}

\* history h of replica r after the step
HistNext(r, h) == IF h = "data" THEN data'[r] ELSE IF h = "perms" THEN perms'[r] ELSE owners'[r]

\* replica r holds, in history h, only the second operation its author emitted and
\* the step merges the first one
SecondBeforeFirst(r, h) ==
    /\ res'.call \in {"apply_crdt_op", "apply_crdt_pub_perms_op",
                      "apply_crdt_private_perms_op", "apply_crdt_owner_op"}
    /\ Len(Hist(r, h)) = 1
    /\ Hist(r, h)[1].counter = 2
    /\ Len(HistNext(r, h)) = 2
    /\ \E i \in 1..2 : HistNext(r, h)[i].counter = 1

\* C22: a replica that merges op2 and then op1, emitted in the order op1, op2 on
\* one history by another replica, holds op1's element at FromStart(0) and op2's
\* at FromStart(1), the same elements the emitting replica reports there, and the
\* same last element when the emitter holds no more than these two.
AuthoringOrderSurvives ==
    [][\A r1, r2 \in Replicas, h \in Histories :
          r1 # r2 /\ SecondBeforeFirst(r2, h) =>
             LET H1 == HistNext(r1, h)
                 H2 == HistNext(r2, h) IN
             /\ H2[1].counter = 1
             /\ H2[2] = Hist(r2, h)[1]
             /\ HistoryGet(H2, <<"FromStart", 0>>) = HistoryGet(H1, <<"FromStart", 0>>)
             /\ HistoryGet(H2, <<"FromStart", 1>>) = HistoryGet(H1, <<"FromStart", 1>>)
             /\ Len(H1) = 2 => HistoryGet(H2, <<"FromEnd", 1>>) = HistoryGet(H1, <<"FromEnd", 1>>)]_vars

\* replica 2 was handed the two owner operations of replica 1 and holds the
\* second owner last, after the first
AuthoringOrderSurvivesWitness ==
    /\ res.call = "apply_crdt_owner_op"
    /\ Len(owners[1]) = 2
    /\ owners[2] = owners[1]
    /\ owners[2][1].counter = 1
    /\ owners[2][2].counter = 2
    /\ owners[2][1].val.public_key # owners[2][2].val.public_key
    /\ check_is_last_owner(2, owners[1][2].val.public_key) = "Ok"

\* C23: two elements appended to one history by replicas of different actors,
\* neither having seen the other's (they carry the same logical position), stand
\* on every replica that holds both with the element of the lower actor first,
\* whichever of the two the replica merged first.
TieBreakByActor ==
    \A r \in Replicas, h \in Histories :
        \A i, j \in 1..Len(Hist(r, h)) :
            /\ i < j
            /\ Hist(r, h)[i].pos = Hist(r, h)[j].pos
            /\ Hist(r, h)[i].actor # Hist(r, h)[j].actor
            => Hist(r, h)[i].actor < Hist(r, h)[j].actor

\* both replicas appended an entry to their empty entry history, exchanged the
\* operations and hold the entry of actor 1 before the entry of actor 2
TieBreakByActorWitness ==
    /\ Len(data[1]) = 2
    /\ data[2] = data[1]
    /\ data[1][1].pos = data[1][2].pos
    /\ data[1][1].actor = actor[1]
    /\ data[1][2].actor = actor[2]
    /\ actor[1] < actor[2]

\* C25: append(entry) on a replica returns an operation carrying the entry,
\* lengthens the replica's entry history by exactly one, makes the entry the one
\* retrieved at the new last position, and leaves the permission and owner
\* histories, and with them permissions_index and owners_index, as they were.
AppendEffect ==
    [][\A r \in Replicas, entry \in Entries :
          append(r, entry) =>
             /\ res'.out = "Ok"
             /\ \E op \in ops' : op.hist = "data" /\ op.elem.val = entry /\ op \in applied'[r]
             /\ Len(data'[r]) = Len(data[r]) + 1
             /\ HistoryGet(data'[r], <<"FromStart", Len(data[r])>>) = Some(entry)
             /\ UNCHANGED <<perms, owners>>]_vars

\* a replica that held a permission snapshot authored against data index 0
\* appended its first entry
AppendEffectWitness ==
    /\ res.call = "append"
    /\ res.out = "Ok"
    /\ \E r \in Replicas :
          /\ Len(data[r]) = 1
          /\ Len(perms[r]) = 1
          /\ perms[r][1].val.expected_data_index = 0
          /\ \A q \in Replicas : q # r => data[q] = << >>

\* C26: an object just constructed has entries_index, permissions_index and
\* owners_index 0 and reports the name, the tag and the visibility it was
\* constructed with; is_pub and is_private never hold together; and no append,
\* permission or owner change or merge changes the address or the variant.
CreationAndIdentity ==
    [][/\ res.call \in {"new_pub", "new_private"} =>
             /\ entries_index(1) = 0 /\ permissions_index(1) = 0 /\ owners_index(1) = 0
             /\ name = res.args[1]
             /\ tag = res.args[2]
             /\ is_pub <=> res.call = "new_pub"
             /\ is_private <=> res.call = "new_private"
       /\ is_pub # is_private
       /\ address' = address
       /\ kind' = kind]_vars

\* an object constructed private under the second name and tag holds an entry,
\* an owner merged from elsewhere, and still reports them
CreationAndIdentityWitness ==
    /\ res.call = "apply_crdt_owner_op"
    /\ name = "name1"
    /\ tag = 10000
    /\ is_private /\ ~is_pub
    /\ kind = "Private"
    /\ Len(data[1]) = 1
    /\ Len(owners[1]) = 1

\* history h holds one more element than g, and the added element carries val
Stored(g, h, val) ==
    /\ Len(h) = Len(g) + 1
    /\ \E i \in 1..Len(h) : h[i].val = val /\ \A j \in 1..Len(g) : g[j] # h[i]

\* every snapshot a replica holds after the step is the element of an emitted
\* operation, as emitted
StoredAsEmitted ==
    \A r \in Replicas :
        /\ \A i \in 1..Len(perms'[r]) : [hist |-> "perms", elem |-> perms'[r][i], address |-> address] \in ops'
        /\ \A i \in 1..Len(owners'[r]) : [hist |-> "owners", elem |-> owners'[r][i], address |-> address] \in ops'

\* C27: the permission snapshot stored by set_pub_permissions /
\* set_private_permissions records the entries and owners indices the replica had
\* before the call, the owner snapshot stored by set_owner records its entries
\* and permissions indices, and the snapshots a replica holds, merged ones
\* included, are those of the emitted operations with the values recorded there.
StampedAtAuthoring ==
    [][/\ \A r \in Replicas :
             /\ \A p \in PubPermissionChoices :
                   kind = "Public" /\ set_pub_permissions(r, p) =>
                      Stored(perms[r], perms'[r],
                             [variant |-> "Public", permissions |-> p,
                              expected_data_index |-> Len(data[r]),
                              expected_owners_index |-> Len(owners[r])])
             /\ \A p \in PrivPermissionChoices :
                   kind = "Private" /\ set_private_permissions(r, p) =>
                      Stored(perms[r], perms'[r],
                             [variant |-> "Private", permissions |-> p,
                              expected_data_index |-> Len(data[r]),
                              expected_owners_index |-> Len(owners[r])])
             /\ \A k \in Keys :
                   set_owner(r, k) =>
                      Stored(owners[r], owners'[r],
                             [public_key |-> k,
                              expected_data_index |-> Len(data[r]),
                              expected_permissions_index |-> Len(perms[r])])
       /\ StoredAsEmitted]_vars

\* a replica holding an entry and no owner set private permissions, recorded
\* (1, 0), and the other replica, holding neither, merged the snapshot as recorded
StampedAtAuthoringWitness ==
    /\ res.call = "apply_crdt_private_perms_op"
    /\ res.out = "Ok"
    /\ \E r, q \in Replicas :
          /\ Len(data[r]) = 1
          /\ owners[r] = << >>
          /\ Len(perms[r]) = 1
          /\ perms[r][1].val.expected_data_index = 1
          /\ perms[r][1].val.expected_owners_index = 0
          /\ data[q] = << >>
          /\ perms[q] = perms[r]

\* the outcome the documentation of check_permission describes: Ok for the last
\* owner and for an action the latest permissions allow, InvalidOwners when there
\* is no last owner, AccessDenied otherwise
DocumentedOutcome(r, request, requester) ==
    IF LatestDecision(r, request, requester) = "Ok" THEN "Ok"
    ELSE IF owners[r] = << >> THEN "InvalidOwners"
    ELSE "AccessDenied"

\* C28: check_permission answers Ok when the requester is the last owner or the
\* latest permissions allow the action, InvalidOwners when the owner history is
\* empty, and AccessDenied when the action is not allowed.
CheckPermissionOutcomes ==
    \A requester \in Keys, request \in Request :
        check_permission(1, request, requester) = DocumentedOutcome(1, request, requester)

\* what Data answers: never InvalidOwners
CheckPermissionNeverInvalidOwners ==
    \A requester \in Keys, request \in Request :
        check_permission(1, request, requester) \in {"Ok", "AccessDenied"}

\* C29: converting a response into a payload type yields the payload when the
\* response is a variant carrying that type with Ok, TryFromError::Response(e)
\* with the same e when that variant holds Err(e), and TryFromError::WrongType
\* for every other variant.
TryFromOutcomes ==
    res.call = "try_from" =>
        LET ok_type == res.args[1]
            response == res.args[2]
            result == [f \in DOMAIN res \ {"call", "args"} |-> res[f]] IN
        IF QueryResponseVariants[response.variant] = ok_type
        THEN IF response.result.out = "Ok"
             THEN result = Ok(response.result.value)
             ELSE result = Response(response.result.out)
        ELSE result = WrongType

\* a Map was asked of GetMapShell(Ok(payload)), the second variant of its
\* conversion, and the payload was returned
TryFromOutcomesWitness ==
    /\ res.call = "try_from"
    /\ res.args[1] = "Map"
    /\ res.args[2].variant = "GetMapShell"
    /\ res.out = "Ok"
    /\ res.value = res.args[2].result.value

\* C30: on every step (local append, index-checked snapshot append accepted or
\* rejected, remote merge) no history of any replica gets shorter, and every
\* element a history held before the step is still in it, unchanged, after it.
AppendOnly ==
    [][\A r \in Replicas, h \in Histories :
          /\ Len(HistNext(r, h)) >= Len(Hist(r, h))
          /\ \A i \in 1..Len(Hist(r, h)) :
                \E j \in 1..Len(HistNext(r, h)) : HistNext(r, h)[j] = Hist(r, h)[i]]_vars

\* a replica holding an owner of its own merged an owner of another actor, which
\* went in front of it
AppendOnlyWitness ==
    /\ res.call = "apply_crdt_owner_op"
    /\ \E r \in Replicas :
          /\ Len(owners[r]) = 2
          /\ owners[r][1].actor # actor[r]
          /\ owners[r][2].actor = actor[r]
          /\ owners[r][1].pos = owners[r][2].pos

\* the owner and permission operations replica r has been handed
AppliedSnapshots(r) == {op \in applied[r] : op.hist \in {"perms", "owners"}}

\* replicas r1 and r2 answer every request of every requester alike
SameDecisions(r1, r2) ==
    \A requester \in Keys, request \in Request :
        check_permission(r1, request, requester) = check_permission(r2, request, requester)

AppliedTo(r, h) == {op.elem : op \in {o \in applied[r] : o.hist = h}}

\* history h of replica r is the listing, in the order of the elements, of the
\* elements of its own operations and of nothing else
OwnOperationsInOrder(r, h) ==
    /\ {Hist(r, h)[i] : i \in 1..Len(Hist(r, h))} = AppliedTo(r, h)
    /\ \A i, j \in 1..Len(Hist(r, h)) : i < j => Less(Hist(r, h)[i], Hist(r, h)[j])

\* the history the apply call named by call merges into
Target(call) ==
    IF call = "apply_crdt_op" THEN "data"
    ELSE IF call = "apply_crdt_owner_op" THEN "owners" ELSE "perms"

\* C32: the three histories merge independently. Whatever the order in which
\* entry, permission and owner operations were applied to a replica, each history
\* holds exactly the elements of its own operations in the order of the elements,
\* so that every order of applying the same operations gives the same state, and
\* applying an operation to one history leaves the other two as they were.
HistoriesMergeIndependently ==
    /\ [](\A h \in Histories : OwnOperationsInOrder(1, h))
    /\ [][res'.call \in ApplyCalls =>
             \A h \in Histories \ {Target(res'.call)} : HistNext(1, h) = Hist(1, h)]_vars

\* the replica has merged an entry, a permission and an owner operation of
\* another replica and an entry of its own, and each history holds its own
HistoriesMergeIndependentlyWitness ==
    /\ \A h \in Histories : \E e \in AppliedTo(1, h) : e.actor = 2
    /\ Len(data[1]) = 2 /\ Len(perms[1]) = 1 /\ Len(owners[1]) = 1
    /\ res.call = "apply_crdt_owner_op"
    /\ \A h \in Histories : OwnOperationsInOrder(1, h)

\* index from the start (0-based) of element e in history h
IndexOf(h, e) == (CHOOSE i \in 1..Len(h) : h[i] = e) - 1

\* the step hands operation op to replica r, whose history of that kind is
\* empty, through an apply call
AppliedToFresh(r, op) ==
    /\ res'.call \in ApplyCalls
    /\ res'.out = "Ok"
    /\ Hist(r, op.hist) = << >>
    /\ op \notin applied[r]
    /\ applied' = [applied EXCEPT ![r] = @ \cup {op}]

\* C33 as stated: every WriteOp a local write returned carries the address of
\* the object, and applying its crdt_op to a fresh replica reproduces the element
\* at the index it has on the replica that produced it.
WriteOpReplayedAtSameIndex ==
    /\ [](\A op \in ops : op.address = address)
    /\ [][\A r, g \in Replicas : \A op \in ops :
             (/\ AppliedToFresh(r, op)
              /\ g # r
              /\ \E i \in 1..Len(Hist(g, op.hist)) : Hist(g, op.hist)[i] = op.elem)
             => /\ HistNext(r, op.hist) = <<op.elem>>
                /\ IndexOf(HistNext(r, op.hist), op.elem) = IndexOf(Hist(g, op.hist), op.elem)]_vars

\* C33 amended: every WriteOp a local write returned carries the address of the
\* object, and applying its crdt_op to a fresh replica reproduces the element as
\* the only one of its history, at index 0: the index it has on the replica that
\* produced it when it is the first element there, and a smaller one when that
\* replica held elements before it.
WriteOpReplayed ==
    /\ [](\A op \in ops : op.address = address)
    /\ [][\A r, g \in Replicas : \A op \in ops :
             (/\ AppliedToFresh(r, op)
              /\ g # r
              /\ \E i \in 1..Len(Hist(g, op.hist)) : Hist(g, op.hist)[i] = op.elem)
             => /\ HistNext(r, op.hist) = <<op.elem>>
                /\ IndexOf(HistNext(r, op.hist), op.elem) = 0
                /\ (IndexOf(Hist(g, op.hist), op.elem) = 0) <=>
                       (Hist(g, op.hist)[1] = op.elem)]_vars

\* a replica of a private object whose histories are empty but for one owner has
\* merged the WriteOp of the other replica's set_owner, which names the private
\* address, and holds the owner at index 0 as the other replica does
WriteOpReplayedWitness ==
    /\ kind = "Private"
    /\ res.call = "apply_crdt_owner_op"
    /\ \E op \in ops :
          /\ op.hist = "owners"
          /\ op.address = address
          /\ applied[2] = {op}
          /\ owners[2] = <<op.elem>>
          /\ owners[1] = <<op.elem>>

\* the queries and authorization checks of Data
QueryCalls ==
    {"check_permission", "check_is_last_owner", "get", "in_range", "last_entry", "owner",
     "user_permissions", "pub_permissions", "private_permissions"}

\* C34: queries and authorization checks are read-only. A step that is a call of
\* check_permission, check_is_last_owner, get, in_range, last_entry, owner,
\* user_permissions, pub_permissions or private_permissions leaves the three
\* histories of the replica and the address unchanged, whether the call succeeds
\* or returns an error.
QueriesReadOnly ==
    [][res'.call \in QueryCalls =>
          /\ data' = data
          /\ perms' = perms
          /\ owners' = owners
          /\ address' = address]_vars

\* a get has returned the first of two entries and both are still held
QueriesReadOnlyWitness ==
    /\ res.call = "get"
    /\ res.args = <<<<"FromStart", 0>>>>
    /\ Len(data[1]) = 2
    /\ res.value = Some(data[1][1].val)

\* the section named after public key public_key
SectionOf(public_key) == [variant |-> "Section", xorname |-> XorNameOf(public_key)]

\* the sender that handled the envelope last: the last proxy, the origin when
\* there is none
LastSender ==
    IF Len(envelope.proxies) = 0 THEN envelope.origin
    ELSE envelope.proxies[Len(envelope.proxies)]

\* the destination the routing of data commands prescribes for the envelope
DataCmdRoute ==
    IF LastSender.variant = "Client" THEN SectionOf(envelope.origin.proof.id)
    ELSE IF LastSender.variant = "Node" /\ LastSender.duty = <<"Elder", "Gateway">>
    THEN SectionOf(envelope.message.cmd.payment.from)
    ELSE IF LastSender.variant \in {"Node", "Section"} /\ LastSender.duty = <<"Elder", "Payment">>
    THEN [variant |-> "Section", xorname |-> envelope.message.cmd.cmd.dst_address]
    ELSE SectionOf(envelope.origin.proof.id)

\* C35: data-command routing. For an envelope carrying a Data command,
\* destination() is the origin's section while the most recent sender is a
\* Client, the payer's section once the most recent sender is a Gateway elder
\* node, the section of the data's own address once the most recent sender is a
\* Payment elder node or the accumulated Payment section, and the origin's
\* section for any other most recent sender.
DataCmdRouting ==
    (/\ res.call = "destination"
     /\ envelope.message.type = "Cmd"
     /\ envelope.message.cmd.variant = "Data")
    => res.value = DataCmdRoute

\* the destination of a data command has been asked for after the Gateway and
\* then the Payment node added themselves, and it is the section of the data
DataCmdRoutingWitness ==
    /\ res.call = "destination"
    /\ envelope.message.type = "Cmd"
    /\ envelope.message.cmd.variant = "Data"
    /\ Len(envelope.proxies) = 2
    /\ envelope.proxies[1].variant = "Node" /\ envelope.proxies[1].duty = Gateway
    /\ envelope.proxies[2].variant = "Node" /\ envelope.proxies[2].duty = Payment
    /\ res.value = Address_Section(DataName)
    /\ res.value # SectionOf(envelope.origin.proof.id)
    /\ res.value # SectionOf(PayerKey)

\* C36: proxy chain bookkeeping. with_proxy(p) returns an envelope whose
\* proxies are those of the original followed by p and whose message, id and
\* origin are those of the original, and leaves the original as it was;
\* most_recent_sender() is the last proxy when there is one and the origin
\* otherwise.
ProxyChain ==
    /\ [](res.call = "most_recent_sender" => res.value = LastSender)
    /\ [][res'.call = "with_proxy" =>
             /\ res'.value.proxies = envelope.proxies \o <<res'.args[1]>>
             /\ res'.value.message = envelope.message
             /\ res'.value.message.id = envelope.message.id
             /\ res'.value.origin = envelope.origin
             /\ envelope' = envelope]_vars

\* with_proxy has returned, for an envelope one proxy has signed, the envelope
\* with a different proxy added after that one
ProxyChainWitness ==
    /\ res.call = "with_proxy"
    /\ Len(envelope.proxies) = 1
    /\ res.args[1] # envelope.proxies[1]
    /\ res.value.proxies = <<envelope.proxies[1], res.args[1]>>

\* the bytes the sender that handled the envelope last has to have signed: the
\* serialised message when there is no proxy, the serialised envelope without
\* its last proxy otherwise
SignedByLastSender ==
    IF Len(envelope.proxies) = 0 THEN [bytes |-> envelope.message]
    ELSE [bytes |-> [message |-> envelope.message,
                     origin |-> envelope.origin,
                     proxies |-> SubSeq(envelope.proxies, 1, Len(envelope.proxies) - 1)]]

\* C37: envelope verification. verify() is true exactly when the signature of
\* the most recent sender is its signature over the serialised message (no
\* proxies) or over the serialised envelope with its last proxy removed, whatever
\* the signatures of the senders before it.
VerifyMostRecentSender ==
    res.call = "verify" =>
        (res.value <=> LastSender.proof.signature =
                           [signer |-> LastSender.proof.id, signed |-> SignedByLastSender])

\* verify() is true of an envelope whose origin's signature is not over the
\* message and whose first proxy's signature is not over the envelope it
\* received, the last proxy having signed the envelope as it received it
VerifyMostRecentSenderWitness ==
    /\ res.call = "verify"
    /\ res.value = TRUE
    /\ Len(envelope.proxies) = 2
    /\ envelope.origin.proof.signature = Forged(ClientKey)
    /\ envelope.proxies[1].proof.signature = Forged(envelope.proxies[1].proof.id)

\* the public BLS share in the public id of keys is there exactly when the
\* private share is, and is then the public share of that private share
SharesCorrespond(keys) ==
    /\ (keys.public_id.bls = << >>) <=> (keys.bls = << >>)
    /\ keys.bls # << >> =>
          /\ keys.public_id.bls = <<keys.bls[1].public>>
          /\ keys.bls[1].public = <<"BlsPublicShare", keys.bls[1].secret>>

\* C38: node key state machine. After any sequence of set_bls_keys and
\* clear_bls_keys on NodeKeypairs or on the node FullId, the public BLS share in
\* public_id is present exactly when the private BLS keypair share is, and the
\* two correspond; public_key() and sign() use the BLS share exactly when it is
\* present and the Ed25519 key otherwise; the Ed25519 keypair and the node name
\* never change.
NodeKeyStateMachine ==
    /\ [](/\ SharesCorrespond(keypairs)
          /\ SharesCorrespond(full_id)
          /\ res.call = "NodeKeypairs::public_key" =>
                IF keypairs.bls # << >>
                THEN res.value = [variant |-> "BlsShare", key |-> keypairs.bls[1].public]
                ELSE res.value = [variant |-> "Ed25519", key |-> keypairs.ed25519.public]
          /\ res.call = "NodeKeypairs::sign" =>
                IF keypairs.bls # << >>
                THEN /\ res.value.variant = "BlsShare"
                     /\ res.value.share.bls_secret_share = keypairs.bls[1].secret
                ELSE /\ res.value.variant = "Ed25519"
                     /\ res.value.signature.ed25519_secret = keypairs.ed25519.secret)
    /\ [][/\ keypairs'.ed25519 = keypairs.ed25519
          /\ keypairs'.public_id.ed25519 = keypairs.public_id.ed25519
          /\ keypairs'.public_id.name = keypairs.public_id.name
          /\ full_id'.ed25519 = full_id.ed25519
          /\ full_id'.public_id.ed25519 = full_id.public_id.ed25519
          /\ full_id'.public_id.name = full_id.public_id.name]_vars

\* the node has signed with the BLS share it was handed under index 1, which its
\* public id shows the public share of, while its FullId holds no share
NodeKeyStateMachineWitness ==
    /\ res.call = "NodeKeypairs::sign"
    /\ res.value.variant = "BlsShare"
    /\ res.value.index = 1
    /\ res.value.share = Bls_sign(2, "data1")
    /\ keypairs.public_id.bls = <<public_key_share(2)>>
    /\ full_id = FullId_new(1)

TypeOK ==
    /\ \A r \in Replicas : Len(data[r]) <= MaxOps /\ Len(perms[r]) <= MaxOps /\ Len(owners[r]) <= MaxOps
    /\ Cardinality(ops) <= MaxOps

====
